---- MODULE Spec2Model ----
(***************************************************************************)
(* Device placement and cable routing engine of the low-current planner.   *)
(*                                                                         *)
(* Numbers.  Every coordinate is an exact rational with denominator 60: a  *)
(* point is <<x, y>> with x and y counted in 1/60 of a plan unit, so that  *)
(* the constants of the code (0.2, 0.25, 0.3, 1/0.3 ...) are integers.     *)
(* Lengths that the code computes with sqrt are kept in 1/1000 of a plan   *)
(* unit (rounded down); comparisons against sqrt values are done on the    *)
(* squares and are exact.  The geometry operators are exact for polygons   *)
(* and segments whose edges are axis-parallel, which is the input family   *)
(* the specifications below draw from.                                     *)
(***************************************************************************)
EXTENDS Integers, Naturals, Sequences, FiniteSets, TLC

VARIABLES
    DB,      \* geometry.DB: the in-memory project store
    rules,   \* rules._rules: the loaded rule configuration
    bucket,  \* the export bucket of the object storage: key -> image
    files,   \* local mask files kept by routing under LOCAL_DOWNLOAD_DIR_ROUTING
    ret,     \* the last call and what it returned (the caller's view)
    runs,    \* per project, the inputs and results of its last placement run (<<>>: none yet)
    reading  \* per project, the locals of a get_state call between its reads and its write (<<>>: none)

vars == <<DB, rules, bucket, files, ret, runs, reading>>

(***************************************************************************)
(* Arithmetic helpers                                                      *)
(***************************************************************************)
Abs(a) == IF a < 0 THEN -a ELSE a
Min2(a, b) == IF a <= b THEN a ELSE b
Max2(a, b) == IF a >= b THEN a ELSE b

RECURSIVE ISqrtBetween(_, _, _)
ISqrtBetween(n, lo, hi) ==
    \* largest r in lo..hi with r*r <= n, by bisection
    IF lo >= hi THEN lo
    ELSE LET mid == (lo + hi + 1) \div 2
         IN IF mid * mid <= n THEN ISqrtBetween(n, mid, hi)
                              ELSE ISqrtBetween(n, lo, mid - 1)

\* floor of the square root (46340 is the largest root of a 32-bit integer)
ISqrt(n) == IF n <= 0 THEN 0 ELSE ISqrtBetween(n, 0, Min2(n, 46340))

\* Python 3 round(): the nearest integer of num/den (den > 0), ties to even.
PyRound(num, den) ==
    LET q == num \div den
        r == num - q * den
    IN IF 2 * r < den THEN q
       ELSE IF 2 * r > den THEN q + 1
       ELSE IF q % 2 = 0 THEN q ELSE q + 1

RECURSIVE SumSeq(_)
SumSeq(s) == IF s = <<>> THEN 0 ELSE Head(s) + SumSeq(Tail(s))

RECURSIVE Concat(_)
Concat(ss) == IF ss = <<>> THEN <<>> ELSE Head(ss) \o Concat(Tail(ss))

\* the subsequence of s at the (increasing) positions in idx
RECURSIVE PickFrom(_, _, _)
PickFrom(s, idx, i) ==
    IF i > Len(s) THEN <<>>
    ELSE (IF i \in idx THEN <<s[i]>> ELSE <<>>) \o PickFrom(s, idx, i + 1)

SelectIdx(s, idx) == PickFrom(s, idx, 1)

(***************************************************************************)
(* shapely: polygons are sequences of vertices (the ring is closed         *)
(* implicitly), segments are pairs of points.                              *)
(***************************************************************************)
Cross(a, b, c) == (b[1] - a[1]) * (c[2] - a[2]) - (b[2] - a[2]) * (c[1] - a[1])

NextIdx(poly, i) == IF i = Len(poly) THEN 1 ELSE i + 1

\* the vertices relative to the first one (keeps the products small)
Rel(poly) == [i \in 1..Len(poly) |-> <<poly[i][1] - poly[1][1], poly[i][2] - poly[1][2]>>]

\* twice the signed area (shoelace), in (1/60)^2 units
SignedArea2(poly) ==
    LET q == Rel(poly)
    IN SumSeq([i \in 1..Len(q) |->
                 q[i][1] * q[NextIdx(q, i)][2] - q[NextIdx(q, i)][1] * q[i][2]])

\* Polygon.area, doubled
Area2(poly) == Abs(SignedArea2(poly))

OnSegment(p, a, b) ==
    /\ Cross(a, b, p) = 0
    /\ Min2(a[1], b[1]) <= p[1] /\ p[1] <= Max2(a[1], b[1])
    /\ Min2(a[2], b[2]) <= p[2] /\ p[2] <= Max2(a[2], b[2])

OnBoundary(poly, p) ==
    \E i \in 1..Len(poly) : OnSegment(p, poly[i], poly[NextIdx(poly, i)])

\* edge i is crossed by the horizontal ray from p towards +x
RayCrosses(poly, p, i) ==
    LET a == poly[i]
        b == poly[NextIdx(poly, i)]
    IN /\ (a[2] > p[2]) # (b[2] > p[2])
       /\ IF b[2] > a[2]
          THEN (p[1] - a[1]) * (b[2] - a[2]) < (b[1] - a[1]) * (p[2] - a[2])
          ELSE (p[1] - a[1]) * (b[2] - a[2]) > (b[1] - a[1]) * (p[2] - a[2])

\* Polygon.contains(Point): the point lies in the interior (not on the boundary)
Contains(poly, p) ==
    /\ ~OnBoundary(poly, p)
    /\ Cardinality({i \in 1..Len(poly) : RayCrosses(poly, p, i)}) % 2 = 1

\* the centroid of the ring taken as a line (weighted by edge length): what
\* Polygon.centroid is for a ring that encloses no area
RingCentroid(poly) ==
    LET q == Rel(poly)
        len(i) == ISqrt(q[i][1] * q[i][1] + q[NextIdx(q, i)][1] * q[NextIdx(q, i)][1]
                        + q[i][2] * q[i][2] + q[NextIdx(q, i)][2] * q[NextIdx(q, i)][2]
                        - 2 * (q[i][1] * q[NextIdx(q, i)][1] + q[i][2] * q[NextIdx(q, i)][2]))
        total == SumSeq([i \in 1..Len(q) |-> len(i)])
        sx == SumSeq([i \in 1..Len(q) |-> (q[i][1] + q[NextIdx(q, i)][1]) * len(i)])
        sy == SumSeq([i \in 1..Len(q) |-> (q[i][2] + q[NextIdx(q, i)][2]) * len(i)])
    IN IF total = 0 THEN poly[1]
       ELSE <<poly[1][1] + sx \div (2 * total), poly[1][2] + sy \div (2 * total)>>

\* Polygon.centroid (area-weighted)
Centroid(poly) ==
    LET q == Rel(poly)
        a2 == SignedArea2(poly)
        cr(i) == q[i][1] * q[NextIdx(q, i)][2] - q[NextIdx(q, i)][1] * q[i][2]
        sx == SumSeq([i \in 1..Len(q) |-> (q[i][1] + q[NextIdx(q, i)][1]) * cr(i)])
        sy == SumSeq([i \in 1..Len(q) |-> (q[i][2] + q[NextIdx(q, i)][2]) * cr(i)])
    IN IF a2 = 0 THEN RingCentroid(poly)
       ELSE <<poly[1][1] + sx \div (3 * a2), poly[1][2] + sy \div (3 * a2)>>

Len2(a, b) == (b[1] - a[1]) * (b[1] - a[1]) + (b[2] - a[2]) * (b[2] - a[2])

\* LineString.length of a two-point segment, in 1/60 units
SegLength(seg) == ISqrt(Len2(seg[1], seg[2]))

\* LineString.interpolate(t): the point at distance t from the start
Interpolate(seg, t) ==
    LET L == SegLength(seg)
    IN IF L = 0 \/ t <= 0 THEN seg[1]
       ELSE IF t >= L THEN seg[2]
       ELSE <<seg[1][1] + ((seg[2][1] - seg[1][1]) * t) \div L,
              seg[1][2] + ((seg[2][2] - seg[1][2]) * t) \div L>>

\* LineString.interpolate(0.5, normalized=True)
Midpoint(seg) == <<(seg[1][1] + seg[2][1]) \div 2, (seg[1][2] + seg[2][2]) \div 2>>

\* LineString.distance(Point), squared: exact for axis-parallel and for zero-length
\* segments, rounded down for oblique ones
SegDist2(seg, p) ==
    LET a == seg[1]
        b == seg[2]
        l2 == Len2(a, b)
        dot == (p[1] - a[1]) * (b[1] - a[1]) + (p[2] - a[2]) * (b[2] - a[2])
        d == Abs(Cross(a, b, p)) \div Max2(ISqrt(l2), 1)
    IN IF l2 = 0 \/ dot <= 0 THEN Len2(a, p)
       ELSE IF dot >= l2 THEN Len2(b, p)
       ELSE d * d

(***************************************************************************)
(* Input families.  A room is stored as ingest stores it: a dict with an   *)
(* optional id and a vertex list.  An opening is a dict with its kind, its *)
(* segment (<<>> when it carries no usable one) and the room ids it        *)
(* references.                                                             *)
(***************************************************************************)
Projects == {"p1", "p2"}

Pt(x, y) == <<60 * x, 60 * y>>

Rect(x1, y1, x2, y2) == <<Pt(x1, y1), Pt(x2, y1), Pt(x2, y2), Pt(x1, y2)>>

\* a room as the dict ingest_dxf stores, and as the Polygon ingest_png stores
RoomDict(id, polygon) == [form |-> "dict", id |-> id, polygon |-> polygon]
RoomPolygon(polygon) == [form |-> "Polygon", id |-> "", polygon |-> polygon]

Opening(kind, segment, roomRefs) == [kind |-> kind, segment |-> segment, roomRefs |-> roomRefs]

(***************************************************************************)
(* rules.py                                                                *)
(***************************************************************************)
\* The rule configuration (rules.json).  socket_per_wall_meter is kept in
\* tenths (3 is 0.3).
DefaultRules == [socket_per_wall_meter |-> 3, min_switches |-> 1, socket_max |-> 6]

DenseRules == [socket_per_wall_meter |-> 5, min_switches |-> 1, socket_max |-> 4]

PairedRules == [socket_per_wall_meter |-> 3, min_switches |-> 2, socket_max |-> 6]

\* a density below the floor of 0.2 per unit
SparseRules == [socket_per_wall_meter |-> 1, min_switches |-> 1, socket_max |-> 6]

RuleSets == {DefaultRules, DenseRules}

get_rules == rules

(***************************************************************************)
(* placement.py                                                            *)
(***************************************************************************)
room_id(idx) == "room_00" \o ToString(idx)

\* _room_size_hint squared and doubled: max(1.0, sqrt(area))^2 * 2
room_size_hint_sq2(room) == Max2(2 * 3600, Area2(room))

\* the perpendicular offset max(0.02 * _room_size_hint(room), 0.2), in 1/60
offset_of(room) ==
    IF room_size_hint_sq2(room) <= 2 * 3600 * 100 THEN 12
    ELSE Max2(ISqrt(room_size_hint_sq2(room) \div 2) \div 50, 12)

\* lines 28-38: the points p1 and p2 on either side of the opening
offset_points(room, base, seg) ==
    LET dx == seg[2][1] - seg[1][1]
        dy == seg[2][2] - seg[1][2]
        L0 == SegLength(seg)
        L == IF L0 = 0 THEN 60 ELSE L0
        off == offset_of(room)
        ox == ((0 - dy) * off) \div L
        oy == (dx * off) \div L
    IN << <<base[1] + ox, base[2] + oy>>, <<base[1] - ox, base[2] - oy>> >>

\* the first offset point, whichever side of the wall it falls on
offset_first(room, base, seg) == offset_points(room, base, seg)[1]

\* lines 40-44
offset_inside(room, base, seg) ==
    LET p1 == offset_points(room, base, seg)[1]
        p2 == offset_points(room, base, seg)[2]
    IN IF Contains(room, p1) THEN p1
       ELSE IF Contains(room, p2) THEN p2
       ELSE base

\* (an absent or empty structure record has no openings)
openings_for_room(project_id, rid) ==
    LET struct == DB.structure[project_id]
    IN SelectSeq(struct.openings, LAMBDA o : rid \in o.roomRefs)

\* _opening_seg: the two end points, or <<>> for an unusable segment
opening_seg(o) == o.segment

rooms_as_polygons(project_id) ==
    LET raw == DB.rooms[project_id]
        ok(r) == \/ r.form = "Polygon"
                 \/ /\ Len(r.polygon) >= 3
                    /\ Area2(r.polygon) > 2 * 3600
        kept == SelectSeq(raw, ok)
    IN [i \in 1..Len(kept) |-> kept[i].polygon]

\* geometry.room_walls: the edges of the exterior ring, in vertex order
room_walls(room) ==
    [i \in 1..Len(room) |-> <<room[i], room[NextIdx(room, i)]>>]

\* geometry.along_wall_points: t = offsets, offsets + step, ... while t < L - offsets
RECURSIVE along_wall_from(_, _, _, _)
along_wall_from(wall, t, step, offsets) ==
    IF t < SegLength(wall) - offsets
    THEN <<Interpolate(wall, t)>> \o along_wall_from(wall, t + step, step, offsets)
    ELSE <<>>

\* the points up to the far corner of the wall
along_wall_to_corner(wall, step, offsets) == along_wall_from(wall, offsets, step, 0)

along_wall_points(wall, step, offsets) == along_wall_from(wall, offsets, step, offsets)

\* s.distance(p) < max(0.03 * _room_size_hint(room), 0.25), compared on the squares
TooClose(room, seg, p) ==
    LET d2 == SegDist2(seg, p)
    IN \/ d2 < 15 * 15
       \/ 20000 * Min2(d2, 100000) < 9 * room_size_hint_sq2(room)

\* the longest usable door segment, first one on ties (<<>> when there is none)
RECURSIVE best_door(_, _, _)
best_door(doors, best, best_len) ==
    IF doors = <<>> THEN best
    ELSE LET seg == opening_seg(Head(doors))
         IN IF seg = <<>> THEN best_door(Tail(doors), best, best_len)
            ELSE IF Len2(seg[1], seg[2]) > best_len
                 THEN best_door(Tail(doors), seg, Len2(seg[1], seg[2]))
                 ELSE best_door(Tail(doors), best, best_len)

\* the loop body without the centroid fallback
room_candidates_by_door(project_id, idx, room) ==
    LET rid == room_id(idx)
        door_openings == SelectSeq(openings_for_room(project_id, rid),
                                   LAMBDA o : o.kind = "door")
        best == best_door(door_openings, <<>>, -1)
    IN IF best # <<>> THEN << <<"SWITCH", rid, offset_inside(room, Midpoint(best), best)>> >>
       ELSE <<>>

\* the body of the loop of generate_candidates for the room at index idx
room_candidates(project_id, idx, room) ==
    LET rid == room_id(idx)
        per_meter == get_rules.socket_per_wall_meter
        step == 600 \div Max2(per_meter, 2)
        openings == openings_for_room(project_id, rid)
        segsAll == [i \in 1..Len(openings) |-> opening_seg(openings[i])]
        opening_segs == SelectSeq(segsAll, LAMBDA s : s # <<>>)
        walls == room_walls(room)
        keep(p) == \A i \in 1..Len(opening_segs) : ~TooClose(room, opening_segs[i], p)
        wallPts(w) == SelectSeq(along_wall_points(w, step, 18), keep)
        sockets == Concat([i \in 1..Len(walls) |->
                      LET pts == wallPts(walls[i])
                      IN [k \in 1..Len(pts) |-> <<"SOCKET", rid, pts[k]>>]])
        door_openings == SelectSeq(openings, LAMBDA o : o.kind = "door")
        best == best_door(door_openings, <<>>, -1)
        sw == IF door_openings # <<>> /\ best # <<>>
              THEN offset_inside(room, Midpoint(best), best)
              ELSE Centroid(room)
    IN sockets \o << <<"SWITCH", rid, sw>> >>

\* the candidates of all rooms, put after the list stored by the last selection
generate_candidates_more(project_id) ==
    LET rooms == rooms_as_polygons(project_id)
    IN DB.candidates[project_id]
       \o Concat([i \in 1..Len(rooms) |-> room_candidates(project_id, i - 1, rooms[i])])

generate_candidates(project_id) ==
    LET rooms == rooms_as_polygons(project_id)
    IN Concat([i \in 1..Len(rooms) |-> room_candidates(project_id, i - 1, rooms[i])])

\* the bounds select_devices writes into its constraints
SwitchAtLeast == 1
SocketAtMost == 6

idxs_of(candidates, rid, t) ==
    {i \in 1..Len(candidates) : candidates[i][2] = rid /\ candidates[i][1] = t}

room_ids_of(candidates) == {candidates[i][2] : i \in 1..Len(candidates)}

\* the constraints select_devices adds to the CP model, on the set xs of chosen indices
ModelHolds(candidates, xs) ==
    \A rid \in room_ids_of(candidates) :
        /\ idxs_of(candidates, rid, "SWITCH") # {}
              => Cardinality(xs \cap idxs_of(candidates, rid, "SWITCH")) >= SwitchAtLeast
        /\ idxs_of(candidates, rid, "SOCKET") # {}
              => Cardinality(xs \cap idxs_of(candidates, rid, "SOCKET")) <= SocketAtMost

FeasibleSets(candidates) ==
    {xs \in SUBSET (1..Len(candidates)) : ModelHolds(candidates, xs)}

MinCount(sets) ==
    CHOOSE k \in {Cardinality(xs) : xs \in sets} :
        \A j \in {Cardinality(xs) : xs \in sets} : k <= j

\* The answers solver.Solve can give within max_time_in_seconds: OPTIMAL with a
\* minimum of the objective sum(xs), FEASIBLE with any solution found before the
\* time ran out, UNKNOWN when it ran out before any solution (INFEASIBLE when the
\* constraints have no solution).
SolveOutcomes(candidates) ==
    LET feas == FeasibleSets(candidates)
    IN IF feas = {} THEN {[status |-> "INFEASIBLE", xs |-> {}]}
       ELSE {[status |-> "OPTIMAL", xs |-> xs] :
                xs \in {f \in feas : Cardinality(f) = MinCount(feas)}}
            \cup {[status |-> "FEASIBLE", xs |-> xs] : xs \in feas}
            \cup {[status |-> "UNKNOWN", xs |-> {}]}

\* lines 171-175: the candidates whose variable is 1, in candidate order
selected_of(candidates, outcome) ==
    IF outcome.status \in {"OPTIMAL", "FEASIBLE"}
    THEN SelectIdx(candidates, outcome.xs)
    ELSE <<>>

\* a stored device or route list: the Python list and the form of its elements
\* ("tuple" as the engine returns them, "dict" as the handlers store them)
Stored(form, items) == [form |-> form, items |-> items]

\* the selection added to the list already stored
store_devices_extend(old, selected) == Stored("tuple", old.items \o selected)

\* the stored list left alone when nothing was selected
store_devices_unless_empty(old, selected) ==
    IF selected = <<>> THEN old ELSE Stored("tuple", selected)

\* line 177: DB["devices"][project_id] = selected
store_devices(old, selected) == Stored("tuple", selected)

(***************************************************************************)
(* routing.py                                                              *)
(*                                                                         *)
(* A mask file is [kind, w, h, rects]: kind "absent" (no such object or    *)
(* file), "garbage" (bytes cv2.imread cannot decode) or "png"; a png is    *)
(* w x h pixels and rects is the set of pixel rectangles <<x1, y1, x2,     *)
(* y2>> (inclusive) whose pixels are > 0.                                  *)
(***************************************************************************)
DEFAULT_PANEL_ANCHOR_PX == <<60 * 30, 60 * 30>>

Png(w, h, rects) == [kind |-> "png", w |-> w, h |-> h, rects |-> rects]
Absent == [kind |-> "absent", w |-> 0, h |-> 0, rects |-> {}]
Garbage == [kind |-> "garbage", w |-> 0, h |-> 0, rects |-> {}]

\* _get_px_per_meter: the scale of the plan graph, 0 standing for None
get_px_per_meter(project_id) ==
    LET pg == DB.plan_graph[project_id]
    IN IF pg.present /\ pg.pxPerMeter > 0 THEN pg.pxPerMeter ELSE 0

\* the key looked up by _download_walls_mask ("" when there is none)
walls_mask_key(project_id) ==
    LET pg == DB.plan_graph[project_id]
    IN IF pg.present /\ pg.wallsMaskKey # "" THEN pg.wallsMaskKey
       ELSE DB.structure[project_id].walls_mask_key

\* the key looked up by _download_free_space_mask
free_space_mask_key(project_id) ==
    LET pg == DB.plan_graph[project_id]
    IN IF pg.present /\ pg.freeSpaceMaskKey # "" THEN pg.freeSpaceMaskKey
       ELSE DB.structure[project_id].free_space_mask_key

\* _download_mask_by_key: the local file after the call.  An existing local
\* file is returned as it is; otherwise the object is fetched, and a failed
\* fetch leaves no file.
download_mask_by_key(key, local) ==
    IF key = "" THEN local
    ELSE IF local.kind # "absent" THEN local
    ELSE bucket[key]

\* pixel (x, y) of the dilated wall mask is set (cv2.dilate, square kernel 2d+1)
WallPixel(img, dilate_px, x, y) ==
    \E r \in img.rects :
        /\ r[1] - dilate_px <= x /\ x <= r[3] + dilate_px
        /\ r[2] - dilate_px <= y /\ y <= r[4] + dilate_px

MaskPixel(img, x, y) ==
    \E r \in img.rects : r[1] <= x /\ x <= r[3] /\ r[2] <= y /\ y <= r[4]

\* cv2.resize(..., INTER_NEAREST): the source index of destination index i
NearestSrc(i, srcSize, dstSize) == Min2((i * srcSize) \div dstSize, srcSize - 1)

\* _build_occupancy: the grid, True = blocked.  free_space_mask is a mask file,
\* of kind "absent" when the caller passes None.  _footprint_mask_from_walls
\* drops a contour whose area is below 1000; a contour of a w x h mask has
\* area at most (w-1)*(h-1), so the masks modelled here (up to 32 x 32) have no
\* footprint and lines 204-206 add nothing.
build_occupancy(walls_mask, free_space_mask, downsample, dilate_px) ==
    LET ds == Max2(2, downsample)
        nh == Max2(1, walls_mask.h \div ds)
        nw == Max2(1, walls_mask.w \div ds)
        wall(x, y) == WallPixel(walls_mask, dilate_px,
                                NearestSrc(x, walls_mask.w, nw),
                                NearestSrc(y, walls_mask.h, nh))
        nofree(x, y) == /\ free_space_mask.kind = "png"
                        /\ ~MaskPixel(free_space_mask,
                                      NearestSrc(x, free_space_mask.w, nw),
                                      NearestSrc(y, free_space_mask.h, nh))
    IN [w |-> nw, h |-> nh, ds |-> ds,
        blocked |-> {c \in (0..(nw - 1)) \X (0..(nh - 1)) :
                        wall(c[1], c[2]) \/ nofree(c[1], c[2])}]

InGrid(occ, c) == 0 <= c[1] /\ c[1] < occ.w /\ 0 <= c[2] /\ c[2] < occ.h

FreeCells(occ) == ((0..(occ.w - 1)) \X (0..(occ.h - 1))) \ occ.blocked

\* costs and distances of _astar in 1/1000 of a cell (sqrt(2) = 1.414...)
nbrs ==
    { <<1, 0, 1000>>, <<-1, 0, 1000>>, <<0, 1, 1000>>, <<0, -1, 1000>>,
      <<1, 1, 1414>>, <<1, -1, 1414>>, <<-1, 1, 1414>>, <<-1, -1, 1414>> }

\* three times the straight distance
heur_tripled(a, b) ==
    3 * ISqrt(1000000 * ((a[1] - b[1]) * (a[1] - b[1]) + (a[2] - b[2]) * (a[2] - b[2])))

heur(a, b) ==
    ISqrt(1000000 * ((a[1] - b[1]) * (a[1] - b[1]) + (a[2] - b[2]) * (a[2] - b[2])))

\* tuple order of the heap entries <<f, g, x, y>>
HeapLeq(a, b) ==
    \/ a[1] < b[1]
    \/ a[1] = b[1] /\ a[2] < b[2]
    \/ a[1] = b[1] /\ a[2] = b[2] /\ a[3] < b[3]
    \/ a[1] = b[1] /\ a[2] = b[2] /\ a[3] = b[3] /\ a[4] <= b[4]

HeapMin(open_heap) == CHOOSE e \in open_heap : \A o \in open_heap : HeapLeq(e, o)

\* lines 242-245: walk came_from back from the goal (path is kept start first)
RECURSIVE path_back(_, _)
path_back(came_from, path) ==
    IF came_from[Head(path)] = <<>> THEN path
    ELSE CHOOSE r \in {path_back(came_from, longer) :
                         longer \in {<<came_from[Head(path)]>> \o path}} : TRUE

\* the score of a cell no path has reached yet (1e18 in the code; the costs
\* here stay far below 10^9)
Unreached == 1000000000

\* the variables of the search loop, as set up by lines 229-233
astar_start(occ, start, goal) ==
    LET all == (0..(occ.w - 1)) \X (0..(occ.h - 1))
    IN [open_heap |-> {<<heur(start, goal), 0, start[1], start[2]>>},
        came_from |-> [c \in all |-> <<>>],
        gscore |-> [c \in all |-> IF c = start THEN 0 ELSE Unreached],
        closed |-> {}]

\* a pass that relaxes the neighbours and leaves the closed set as it was
astar_step_reopening(occ, goal, st) ==
    LET e == HeapMin(st.open_heap)
        g == e[2]
        cur == <<e[3], e[4]>>
        rest == st.open_heap \ {e}
        cells == {c \in DOMAIN st.gscore :
                    /\ c \notin occ.blocked
                    /\ \E n \in nbrs : c = <<cur[1] + n[1], cur[2] + n[2]>>}
        ng(c) == g + (CHOOSE n \in nbrs : <<cur[1] + n[1], cur[2] + n[2]>> = c)[3]
    IN [open_heap |-> rest \cup {<<ng(c) + heur(c, goal), ng(c), c[1], c[2]>> :
                                    c \in {d \in cells : ng(d) < st.gscore[d]}},
        came_from |-> st.came_from,
        gscore |-> [c \in DOMAIN st.gscore |->
                       IF c \in cells /\ ng(c) < st.gscore[c] THEN ng(c) ELSE st.gscore[c]],
        closed |-> st.closed]

\* one pass of the while loop that does not return: pop the least entry, skip
\* it when closed, else close it and relax its neighbours (lines 235-262)
astar_step(occ, goal, st) ==
    LET e == HeapMin(st.open_heap)
        g == e[2]
        cur == <<e[3], e[4]>>
        rest == st.open_heap \ {e}
        better == {n \in nbrs :
                     LET nxt == <<cur[1] + n[1], cur[2] + n[2]>>
                     IN /\ InGrid(occ, nxt)
                        /\ nxt \notin occ.blocked
                        /\ g + n[3] < st.gscore[nxt]}
        cells == {<<cur[1] + n[1], cur[2] + n[2]>> : n \in better}
        ng(c) == g + (CHOOSE n \in better : <<cur[1] + n[1], cur[2] + n[2]>> = c)[3]
    IN IF cur \in st.closed THEN [st EXCEPT !.open_heap = rest]
       ELSE [open_heap |-> rest \cup {<<ng(c) + heur(c, goal), ng(c), c[1], c[2]>> : c \in cells},
             came_from |-> [c \in DOMAIN st.came_from |->
                               IF c \in cells THEN cur ELSE st.came_from[c]],
             gscore |-> [c \in DOMAIN st.gscore |->
                            IF c \in cells THEN ng(c) ELSE st.gscore[c]],
             closed |-> st.closed \cup {cur}]

\* the while loop of lines 235-264.  Each pass's variables are bound as one
\* value (n) before the next pass reads them.
RECURSIVE astar_loop(_, _, _)
astar_loop(occ, goal, st) ==
    IF st.open_heap = {} THEN <<>>
    ELSE LET e == HeapMin(st.open_heap)
             cur == <<e[3], e[4]>>
         IN IF cur \notin st.closed /\ cur = goal
            THEN path_back(st.came_from, <<cur>>)
            ELSE CHOOSE path \in {astar_loop(occ, goal, n) :
                                    n \in {astar_step(occ, goal, st)}} : TRUE

\* _astar: the path as a sequence of cells, <<>> for None
astar(occ, start, goal) ==
    IF ~(InGrid(occ, start) /\ InGrid(occ, goal)) THEN <<>>
    ELSE IF start \in occ.blocked \/ goal \in occ.blocked THEN <<>>
    ELSE CHOOSE path \in {astar_loop(occ, goal, st) :
                            st \in {astar_start(occ, start, goal)}} : TRUE

Cheb(a, b) == Max2(Abs(a[1] - b[1]), Abs(a[2] - b[2]))

\* order in which _nearest_free_cell visits the cells of one ring around c0:
\* first the two rows dy = -r, +r by (dx, dy), then the two columns by (dy, dx)
RingKey(c0, r, c) ==
    LET dx == c[1] - c0[1]
        dy == c[2] - c0[2]
    IN IF Abs(dy) = r THEN <<0, dx, dy>> ELSE <<1, dy, dx>>

KeyLeq(a, b) ==
    \/ a[1] < b[1]
    \/ a[1] = b[1] /\ a[2] < b[2]
    \/ a[1] = b[1] /\ a[2] = b[2] /\ a[3] <= b[3]

\* the nearest free cell at any distance
nearest_free_cell_unbounded(occ, cell, max_r) ==
    LET free == FreeCells(occ)
    IN IF InGrid(occ, cell) /\ cell \notin occ.blocked THEN cell
       ELSE IF free = {} THEN <<>>
       ELSE CHOOSE c \in free : \A d \in free : Cheb(c, cell) <= Cheb(d, cell)

\* _nearest_free_cell: the cell, or <<>> for None
nearest_free_cell(occ, cell, max_r) ==
    LET free == FreeCells(occ)
        near == {c \in free : Cheb(c, cell) <= max_r}
    IN IF InGrid(occ, cell) /\ cell \notin occ.blocked THEN cell
       ELSE IF near = {} THEN <<>>
       ELSE LET r == CHOOSE k \in {Cheb(c, cell) : c \in near} :
                        \A j \in {Cheb(c, cell) : c \in near} : k <= j
                ring == {c \in near : Cheb(c, cell) = r}
            IN CHOOSE c \in ring :
                  \A d \in ring : KeyLeq(RingKey(cell, r, c), RingKey(cell, r, d))

point_to_cell(p, ds) == <<PyRound(p[1], 60 * ds), PyRound(p[2], 60 * ds)>>

cell_to_point(cell, ds) == <<60 * cell[1] * ds + 30 * ds, 60 * cell[2] * ds + 30 * ds>>

\* LineString.length in 1/600 of a unit, each segment rounded down
LineLength(coords) ==
    SumSeq([i \in 1..(Len(coords) - 1) |-> ISqrt(100 * Len2(coords[i], coords[i + 1]))])

\* LineString.length > 0
HasLength(coords) == \E i \in 1..(Len(coords) - 1) : coords[i] # coords[i + 1]

attempts == << <<8, 3>>, <<8, 2>>, <<6, 2>>, <<6, 1>>, <<4, 1>>, <<4, 0>> >>

\* the cell centres of the path as they are
route_coords_centres(path, ds, p, panel) ==
    [i \in 1..Len(path) |-> cell_to_point(path[i], ds)]

\* lines 429-431: the cell centres with both ends replaced by the exact points
route_coords(path, ds, p, panel) ==
    [i \in 1..Len(path) |->
        IF i = Len(path) THEN panel
        ELSE IF i = 1 THEN p
        ELSE cell_to_point(path[i], ds)]

\* lines 426-436: the outcome of one attempt, given the path of _astar
attempt_result(occ, k, path, p, panel) ==
    LET coords == IF Len(path) < 2 THEN <<>> ELSE route_coords(path, occ.ds, p, panel)
    IN [ok |-> Len(path) >= 2 /\ HasLength(coords),
        attempt |-> k, occ |-> occ, path |-> path, coords |-> coords]

\* lines 417-424: the free cells next to both ends and the path between them
attempt_path(occ, p, panel) ==
    LET s == nearest_free_cell(occ, point_to_cell(p, occ.ds), 35)
        g == nearest_free_cell(occ, point_to_cell(panel, occ.ds), 60)
    IN IF s = <<>> \/ g = <<>> THEN <<>>
       ELSE CHOOSE path \in {astar(occ, sg[1], sg[2]) : sg \in {<<s, g>>}} : TRUE

\* lines 414-436: attempt k of the ladder for the device at p
try_attempt(walls, free_space, p, panel, k) ==
    CHOOSE a \in {attempt_result(og[1], k, og[2], p, panel) :
                    og \in {<<occ, attempt_path(occ, p, panel)>> :
                               occ \in {build_occupancy(walls, free_space,
                                                        attempts[k][1], attempts[k][2])}}} :
        TRUE

\* the two-point line drawn from the panel to the device
straight_line_from_panel(p, panel) == <<panel, p>>

\* the straight two-point line of lines 372, 385 and 439
straight_line(p, panel) == <<p, panel>>

\* the finest attempt from k on that gives a line, else the straight line
ladder_finest(walls, free_space, p, panel, k) ==
    LET tries == [j \in 1..Len(attempts) |-> try_attempt(walls, free_space, p, panel, j)]
        oks == {j \in k..Len(attempts) : tries[j].ok}
    IN IF oks = {}
       THEN [ok |-> FALSE, attempt |-> 0,
             occ |-> [w |-> 0, h |-> 0, ds |-> 0, blocked |-> {}],
             path |-> <<>>, coords |-> <<p, panel>>]
       ELSE tries[CHOOSE j \in oks : \A i \in oks : i <= j]

\* lines 413-439: the first attempt that gives a line, else the straight line
RECURSIVE ladder(_, _, _, _, _)
ladder(walls, free_space, p, panel, k) ==
    IF k > Len(attempts)
    THEN [ok |-> FALSE, attempt |-> 0,
          occ |-> [w |-> 0, h |-> 0, ds |-> 0, blocked |-> {}],
          path |-> <<>>, coords |-> straight_line(p, panel)]
    ELSE CHOOSE r \in {IF a.ok THEN a ELSE ladder(walls, free_space, p, panel, k + 1) :
                         a \in {try_attempt(walls, free_space, p, panel, k)}} : TRUE

\* a route as route_all returns it: (type, LineString, length)
make_route(t, coords, px_per_m) ==
    <<t, coords, IF px_per_m > 0 THEN LineLength(coords) \div px_per_m
                                 ELSE LineLength(coords)>>

\* d.get(k): "" stands for a missing key (None), falsy like the empty string
DictGet(d, k) == IF k \in DOMAIN d THEN d[k] ELSE ""

\* a or b or c or fallback
FirstTruthy(values, fallback) ==
    IF \E i \in 1..Len(values) : values[i] # ""
    THEN values[CHOOSE i \in 1..Len(values) :
                    values[i] # "" /\ \A j \in 1..(i - 1) : values[j] = ""]
    ELSE fallback

\* _normalize_devices: every stored device as (type, room id, point); a dict
\* without x or y raises in float(None) and is skipped
normalize_devices(project_id) ==
    LET raw == DB.devices[project_id]
        usable == SelectSeq(raw.items, LAMBDA d : {"x", "y"} \subseteq DOMAIN d)
    IN IF raw.form = "tuple" THEN raw.items
       ELSE [i \in 1..Len(usable) |->
                <<FirstTruthy(<<DictGet(usable[i], "type"), DictGet(usable[i], "device_type"),
                                DictGet(usable[i], "kind")>>, "DEVICE"),
                  FirstTruthy(<<DictGet(usable[i], "roomId"), DictGet(usable[i], "room_id"),
                                DictGet(usable[i], "room")>>, "room_000"),
                  <<usable[i].x, usable[i].y>> >>]

\* the local mask files after lines 361-362
walls_file(project_id) ==
    download_mask_by_key(walls_mask_key(project_id), files[project_id].wallsMask)

free_file(project_id) ==
    download_mask_by_key(free_space_mask_key(project_id), files[project_id].freeSpaceMask)

\* lines 367 and 382: a wall mask file exists and cv2.imread can read it
has_walls(project_id) ==
    walls_mask_key(project_id) # "" /\ walls_file(project_id).kind = "png"

\* lines 395-397: the free-space image, Absent standing for None
free_space_of(project_id) ==
    IF free_space_mask_key(project_id) # "" /\ free_file(project_id).kind = "png"
    THEN free_file(project_id) ELSE Absent

\* lines 413-442: the line of one device
device_line(project_id, p, panel) ==
    IF has_walls(project_id)
    THEN ladder(walls_file(project_id), free_space_of(project_id), p, panel, 1)
    ELSE ladder(walls_file(project_id), free_space_of(project_id), p, panel,
                Len(attempts) + 1)

\* what route_all computes: per device the ladder result (kept for the
\* observer) and the route
routing(project_id) ==
    LET devices == normalize_devices(project_id)
        panel == DEFAULT_PANEL_ANCHOR_PX
        px_per_m == get_px_per_meter(project_id)
    IN CHOOSE r \in
          {[devices |-> devices,
            panel |-> panel,
            found |-> found,
            routes |-> [i \in 1..Len(devices) |->
                           make_route(devices[i][1], found[i].coords, px_per_m)]] :
             found \in {[i \in 1..Len(devices) |->
                            device_line(project_id, devices[i][3], panel)]}} : TRUE

\* lines 345, 377, 390, 447: DB["routes"][project_id] = routes
store_routes(old, routes) == Stored("tuple", routes)

(***************************************************************************)
(* main.py: the JSON forms the handlers store                              *)
(***************************************************************************)
\* the dicts of the (TYPE, Point) pattern: no room id
devices_to_json_roomless(devices) ==
    [i \in 1..Len(devices) |->
        [type |-> devices[i][1], label |-> devices[i][1],
         x |-> devices[i][3][1], y |-> devices[i][3][2]]]

\* _devices_to_json on (type, room_id, Point) tuples
devices_to_json(devices) ==
    [i \in 1..Len(devices) |->
        [type |-> devices[i][1], label |-> devices[i][1], room_id |-> devices[i][2],
         x |-> devices[i][3][1], y |-> devices[i][3][2]]]

\* _routes_to_json on (type, LineString, length) tuples
routes_to_json(routes) ==
    [i \in 1..Len(routes) |->
        [type |-> routes[i][1], length_m |-> routes[i][3], points |-> routes[i][2]]]

(***************************************************************************)
(* The state machine                                                       *)
(***************************************************************************)
WallsKey(p) == "masks/" \o p \o "_walls.png"
FreeKey(p) == "masks/" \o p \o "_free.png"
Keys == {WallsKey(p) : p \in Projects} \cup {FreeKey(p) : p \in Projects}

NoPlanGraph ==
    [present |-> FALSE, wallsMaskKey |-> "", freeSpaceMaskKey |-> "", pxPerMeter |-> 0,
     rooms |-> <<>>, openings |-> <<>>]

NoStructure == [openings |-> <<>>, walls_mask_key |-> "", free_space_mask_key |-> ""]

NoRet == [op |-> "", pid |-> "", status |-> "", cands |-> <<>>, out |-> <<>>, found |-> <<>>]

\* geometry.ensure_project: the entries of a project nothing was stored for
EmptyDB ==
    [rooms |-> [p \in Projects |-> <<>>],
     devices |-> [p \in Projects |-> Stored("tuple", <<>>)],
     routes |-> [p \in Projects |-> Stored("tuple", <<>>)],
     candidates |-> [p \in Projects |-> <<>>],
     structure |-> [p \in Projects |-> NoStructure],
     plan_graph |-> [p \in Projects |-> NoPlanGraph]]

\* the rooms and openings a placement run reads
PlacementInput(project_id) ==
    <<DB.rooms[project_id], DB.structure[project_id].openings, rules>>

\* a placement run as an observer records it
RunRecord(project_id, cands, status, selected) ==
    [input |-> PlacementInput(project_id), cands |-> cands, status |-> status,
     selected |-> selected]

Remember(project_id, rec) == [runs EXCEPT ![project_id] = <<rec>>]

\* cands = generate_candidates(project_id)
GenerateCandidates(project_id) ==
    /\ ret' = [NoRet EXCEPT !.op = "generate_candidates", !.pid = project_id,
                            !.out = generate_candidates(project_id)]
    /\ UNCHANGED <<DB, rules, bucket, files, runs, reading>>

\* the writes of select_devices, lines 177-178
after_select(project_id, candidates, selected) ==
    [DB EXCEPT !.devices[project_id] = store_devices(@, selected),
               !.candidates[project_id] = candidates]

\* select_devices(project_id, cands), with the list the caller just generated
SelectDevices(project_id) ==
    /\ ret.op = "generate_candidates" /\ ret.pid = project_id
    /\ \E outcome \in SolveOutcomes(ret.out) :
          LET selected == selected_of(ret.out, outcome)
          IN /\ DB' = after_select(project_id, ret.out, selected)
             /\ ret' = [NoRet EXCEPT !.op = "select_devices", !.pid = project_id,
                                     !.status = outcome.status, !.cands = ret.out,
                                     !.out = selected]
             /\ runs' = Remember(project_id,
                                 RunRecord(project_id, ret.out, outcome.status, selected))
    /\ UNCHANGED <<rules, bucket, files, reading>>

\* the route list written together with the devices in their JSON form, as
\* api_state.get_state writes them back
after_route_normalizing(project_id, routes) ==
    [DB EXCEPT !.routes[project_id] = store_routes(@, routes),
               !.devices[project_id] =
                   Stored("dict", devices_to_json(normalize_devices(project_id)))]

\* the route list written under every project id
after_route_everywhere(project_id, routes) ==
    [DB EXCEPT !.routes = [p \in Projects |-> store_routes(DB.routes[p], routes)]]

\* the writes of route_all: the route list, and the mask files it fetched
after_route(project_id, routes) ==
    [DB EXCEPT !.routes[project_id] = store_routes(@, routes)]

files_after_route(project_id) ==
    IF normalize_devices(project_id) = <<>> THEN files
    ELSE [files EXCEPT ![project_id] =
             [wallsMask |-> walls_file(project_id),
              freeSpaceMask |-> free_file(project_id)]]

\* routes = route_all(project_id)
RouteAll(project_id) ==
    \E r \in {routing(project_id)} :
       /\ DB' = after_route(project_id, r.routes)
       /\ files' = files_after_route(project_id)
       /\ ret' = [NoRet EXCEPT !.op = "route_all", !.pid = project_id,
                               !.cands = r.devices, !.out = r.routes, !.found = r.found]
       /\ UNCHANGED <<rules, bucket, runs, reading>>

(***************************************************************************)
(* structure_detect.py                                                     *)
(***************************************************************************)
\* _coerce_rooms_polygons: the (room id, polygon) pairs the detector works
\* with and writes into the roomRefs of the openings.  The first stored room
\* decides how the list is read; ids follow the position in the stored list
coerce_rooms_polygons(project_id) ==
    LET rooms_raw == DB.rooms[project_id]
        own(i) == IF rooms_raw[i].id # "" THEN rooms_raw[i].id ELSE room_id(i - 1)
        usable == {i \in 1..Len(rooms_raw) :
                      /\ Len(rooms_raw[i].polygon) >= 3
                      /\ Area2(rooms_raw[i].polygon) > 2 * 3600}
    IN IF rooms_raw = <<>> THEN <<>>
       ELSE IF rooms_raw[1].form = "Polygon"
            THEN [i \in 1..Len(rooms_raw) |-> <<room_id(i - 1), rooms_raw[i].polygon>>]
            ELSE SelectIdx([i \in 1..Len(rooms_raw) |-> <<own(i), rooms_raw[i].polygon>>],
                           usable)

(***************************************************************************)
(* validator.py                                                            *)
(***************************************************************************)
\* _coerce_polygon: the polygon, or <<>> for None (the rooms here are simple
\* rings, which are valid when they enclose an area)
coerce_polygon(room_like) ==
    IF room_like.form = "Polygon" THEN room_like.polygon
    ELSE IF Len(room_like.polygon) >= 3 /\ Area2(room_like.polygon) > 0
         THEN room_like.polygon
         ELSE <<>>

\* lines 60-62, as str(room_id): the index, or the id a dict carries
validator_room_id(idx, room_like) ==
    IF room_like.form = "dict" /\ room_like.id # "" THEN room_like.id ELSE ToString(idx)

\* lines 68-74: the stored devices counted for the room; only 3-tuples count,
\* and their room id is a string, so it can only match str(room_id)
devices_in_room(db, project_id, idx, room_like) ==
    IF db.devices[project_id].form = "tuple"
    THEN SelectSeq(db.devices[project_id].items,
                   LAMBDA d : d[2] = validator_room_id(idx, room_like))
    ELSE <<>>

\* validate_project on the store db: the violations, in order (no doors are
\* stored for a raster project; the corner offset is the default 10 cm)
validate_project(db, project_id) ==
    LET rooms_raw == db.rooms[project_id]
        of_room(i) ==
            LET rid == validator_room_id(i - 1, rooms_raw[i])
                poly == coerce_polygon(rooms_raw[i])
                ds == devices_in_room(db, project_id, i - 1, rooms_raw[i])
                switches == SelectSeq(ds, LAMBDA d : d[1] = "SWITCH")
                near(d) == \E k \in 1..Len(poly) : Len2(poly[k], d[3]) < 6 * 6
            IN (IF Len(switches) < get_rules.min_switches
                THEN <<[room |-> rid, type |-> "SWITCH_MIN"]>> ELSE <<>>)
               \o Concat([k \in 1..Len(ds) |->
                            IF near(ds[k]) THEN <<[room |-> rid, type |-> "OFFSET_CORNER"]>>
                            ELSE <<>>])
    IN Concat([i \in 1..Len(rooms_raw) |->
                 IF coerce_polygon(rooms_raw[i]) = <<>> THEN <<>> ELSE of_room(i)])

\* main.place, lines 363-367: generate, select, store the JSON form, validate
Place(project_id) ==
    \E cands \in {generate_candidates(project_id)} :
       /\ \E outcome \in SolveOutcomes(cands) :
          \E chosen \in {selected_of(cands, outcome)} :
          \E db \in {[after_select(project_id, cands, chosen) EXCEPT
                         !.devices[project_id] = Stored("dict", devices_to_json(chosen))]} :
                /\ DB' = db
                /\ ret' = [NoRet EXCEPT !.op = "place", !.pid = project_id,
                                        !.status = outcome.status, !.cands = cands,
                                        !.out = chosen,
                                        !.found = validate_project(db, project_id)]
                /\ runs' = Remember(project_id,
                                    RunRecord(project_id, cands, outcome.status, chosen))
       /\ UNCHANGED <<rules, bucket, files, reading>>

\* main.route, lines 372-374: route, store the JSON form
Route(project_id) ==
    \E r \in {routing(project_id)} :
       /\ DB' = [DB EXCEPT !.routes[project_id] = Stored("dict", routes_to_json(r.routes))]
       /\ files' = files_after_route(project_id)
       /\ ret' = [NoRet EXCEPT !.op = "route", !.pid = project_id,
                               !.cands = r.devices, !.out = r.routes, !.found = r.found]
       /\ UNCHANGED <<rules, bucket, runs, reading>>

\* api_state._devices_to_json: dicts are copied, tuples become dicts
state_devices_to_json(stored) ==
    IF stored.form = "dict" THEN stored.items ELSE devices_to_json(stored.items)

\* api_state.get_state, lines 114-115: the handler's thread reads the stored
\* device and route lists into its locals
GetStateRead(project_id) ==
    /\ reading[project_id] = <<>>
    /\ reading' = [reading EXCEPT ![project_id] =
                      <<[devices_raw |-> DB.devices[project_id],
                         routes_raw |-> DB.routes[project_id]]>>]
    /\ ret' = [NoRet EXCEPT !.op = "get_state_read", !.pid = project_id]
    /\ UNCHANGED <<DB, rules, bucket, files, runs>>

\* the device list get_state stores back (line 121)
after_get_state(project_id, devices) ==
    [DB EXCEPT !.devices[project_id] = Stored("dict", devices)]

\* api_state.get_state, lines 117-132: convert the locals, store the device
\* list back and answer
GetStateWrite(project_id) ==
    /\ reading[project_id] # <<>>
    /\ \E devices \in {state_devices_to_json(reading[project_id][1].devices_raw)} :
          /\ DB' = after_get_state(project_id, devices)
          /\ ret' = [NoRet EXCEPT !.op = "get_state", !.pid = project_id, !.out = devices]
    /\ reading' = [reading EXCEPT ![project_id] = <<>>]
    /\ UNCHANGED <<rules, bucket, files, runs>>

(***************************************************************************)
(* Inputs.  A scenario is what ingest and structure detection left for a   *)
(* project: rooms, openings, whether the plan graph names a wall mask, the *)
(* objects stored under the mask keys, and the scale.                      *)
(***************************************************************************)
Scenario(rooms, openings, detected, walls, free, ppm) ==
    [rooms |-> rooms, openings |-> openings, detected |-> detected,
     walls |-> walls, free |-> free, ppm |-> ppm]

\* a 2 x 0.6 room, a 2 x 1 room and a 4 x 3 room at (4, 4); two 2 x 0.6 rooms
\* sharing the wall x = 10
TinyRoom == << <<240, 240>>, <<360, 240>>, <<360, 276>>, <<240, 276>> >>
RoomS == Rect(4, 4, 6, 5)
RoomA == Rect(4, 4, 8, 7)
TinyL == << <<480, 480>>, <<600, 480>>, <<600, 516>>, <<480, 516>> >>
TinyR == << <<600, 480>>, <<720, 480>>, <<720, 516>>, <<600, 516>> >>

Seg(x1, y1, x2, y2) == <<Pt(x1, y1), Pt(x2, y2)>>

\* a door in the bottom wall y = 4, from x = 5 to x = 5.6
DoorTiny == Opening("door", << <<300, 240>>, <<336, 240>> >>, {"room_000"})
\* the same door, drawn in the middle of a wall of thickness 1 (y = 3.5)
DoorInWall == Opening("door", << <<300, 210>>, <<336, 210>> >>, {"room_000"})
\* a shorter door in the top wall of RoomS
DoorShort == Opening("door", << <<260, 300>>, <<280, 300>> >>, {"room_000"})
DoorNoSeg == Opening("door", <<>>, {"room_000"})
WindowS == Opening("window", << <<360, 252>>, <<360, 288>> >>, {"room_000"})
DoorA == Opening("door", Seg(6, 4, 7, 4), {"room_000"})
\* a door in the shared wall of TinyL and TinyR
DoorLR == Opening("door", << <<600, 486>>, <<600, 510>> >>, {"room_000", "room_001"})

\* a 6 x 0.5 corridor
Corridor == << <<240, 240>>, <<600, 240>>, <<600, 270>>, <<240, 270>> >>

\* a Polygon whose three vertices lie on one line (no area)
FlatRoom == <<Pt(4, 4), Pt(6, 4), Pt(5, 4)>>

\* two more 0.5 x 0.5 rooms
NookA == << <<240, 240>>, <<270, 240>>, <<270, 270>>, <<240, 270>> >>
NookB == << <<600, 480>>, <<630, 480>>, <<630, 510>>, <<600, 510>> >>

\* a 0.5 x 0.5 room (a switch and no socket) next to the panel anchor
NookC == << <<1200, 1200>>, <<1230, 1200>>, <<1230, 1230>>, <<1200, 1230>> >>

BlankMask == Png(32, 32, {})
OneWall == Png(32, 32, {<<12, 0, 13, 23>>})
CornerBlock == Png(32, 32, {<<0, 0, 7, 7>>})
BoxWalls == Png(32, 32, {<<2, 2, 29, 2>>, <<2, 2, 2, 12>>, <<2, 12, 20, 12>>, <<29, 2, 29, 29>>})
AllWalls == Png(32, 32, {<<0, 0, 31, 31>>})
SplitWall == Png(32, 32, {<<8, 0, 19, 31>>})
OnePixel == Png(1, 1, {<<0, 0, 0, 0>>})

\* placement inputs, without a raster
LongWalls == Scenario(<<RoomDict("", RoomA)>>, <<DoorA>>, FALSE, Absent, Absent, 0)

PlaceScenarios ==
    { Scenario(<<RoomDict("", RoomS)>>, <<DoorTiny>>, FALSE, Absent, Absent, 0),
      Scenario(<<RoomDict("", RoomS)>>, <<DoorInWall>>, FALSE, Absent, Absent, 0),
      Scenario(<<RoomDict("", RoomS)>>, <<DoorShort, DoorTiny, WindowS>>, FALSE, Absent, Absent, 0),
      Scenario(<<RoomDict("", RoomS)>>, <<DoorNoSeg, WindowS>>, FALSE, Absent, Absent, 0),
      Scenario(<<RoomPolygon(RoomS)>>, <<>>, FALSE, Absent, Absent, 0),
      Scenario(<<RoomDict("", TinyL), RoomDict("", TinyR)>>, <<DoorLR>>, FALSE, Absent, Absent, 0),
      Scenario(<<RoomDict("", <<Pt(0, 0), Pt(1, 1)>>), RoomDict("", TinyRoom)>>, <<DoorTiny>>,
               FALSE, Absent, Absent, 0),
      Scenario(<<>>, <<>>, FALSE, Absent, Absent, 0) }

\* pipeline inputs: a small room and the rasters routing can meet
RouteScenarios ==
    { Scenario(<<RoomDict("", TinyRoom)>>, <<DoorTiny>>, FALSE, Absent, Absent, 0),
      Scenario(<<RoomDict("", TinyRoom)>>, <<DoorTiny>>, TRUE, Absent, Absent, 0),
      Scenario(<<RoomDict("", TinyRoom)>>, <<DoorTiny>>, TRUE, Garbage, Absent, 0),
      Scenario(<<RoomDict("", TinyRoom)>>, <<DoorTiny>>, TRUE, OnePixel, Absent, 0),
      Scenario(<<RoomDict("", TinyRoom)>>, <<DoorTiny>>, TRUE, AllWalls, Absent, 0),
      Scenario(<<RoomDict("", TinyRoom)>>, <<DoorTiny>>, TRUE, BlankMask, Absent, 2),
      Scenario(<<RoomDict("", TinyRoom)>>, <<DoorTiny>>, TRUE, OneWall, Absent, 0),
      Scenario(<<RoomDict("", TinyRoom)>>, <<DoorTiny>>, TRUE, CornerBlock, Absent, 0),
      Scenario(<<RoomDict("", TinyRoom)>>, <<DoorTiny>>, TRUE, SplitWall, Absent, 0),
      Scenario(<<RoomDict("", TinyRoom)>>, <<>>, TRUE, BoxWalls, Absent, 0),
      Scenario(<<RoomPolygon(NookC)>>, <<>>, TRUE, BlankMask, Absent, 0),
      Scenario(<<>>, <<>>, TRUE, BlankMask, Absent, 0) }

\* handler inputs
ApiScenarios ==
    { Scenario(<<RoomDict("", TinyRoom)>>, <<DoorTiny>>, FALSE, Absent, Absent, 0),
      Scenario(<<RoomDict("", TinyRoom)>>, <<DoorTiny>>, TRUE, OneWall, Absent, 2),
      Scenario(<<RoomPolygon(NookA), RoomPolygon(NookB)>>, <<>>, TRUE, OneWall, Absent, 0),
      Scenario(<<>>, <<>>, TRUE, BlankMask, Absent, 0) }

\* the store after ingest and structure detection put scenario sc into project p
Loaded(db, p, sc) ==
    [db EXCEPT
        !.rooms[p] = sc.rooms,
        !.structure[p] =
            [openings |-> sc.openings,
             walls_mask_key |-> IF sc.detected THEN WallsKey(p) ELSE "",
             free_space_mask_key |-> IF sc.free.kind # "absent" THEN FreeKey(p) ELSE ""],
        !.plan_graph[p] =
            IF sc.detected
            THEN [present |-> TRUE, wallsMaskKey |-> WallsKey(p),
                  freeSpaceMaskKey |-> IF sc.free.kind # "absent" THEN FreeKey(p) ELSE "",
                  pxPerMeter |-> sc.ppm, rooms |-> sc.rooms, openings |-> sc.openings]
            ELSE NoPlanGraph]

Uploaded(p, sc) ==
    [k \in Keys |-> IF k = WallsKey(p) THEN sc.walls
                    ELSE IF k = FreeKey(p) THEN sc.free
                    ELSE Absent]

NoFiles == [p \in Projects |-> [wallsMask |-> Absent, freeSpaceMask |-> Absent]]

InitWith(scenarios, rulesets) ==
    /\ \E sc \in scenarios :
          /\ DB = Loaded(EmptyDB, "p1", sc)
          /\ bucket = Uploaded("p1", sc)
    /\ rules \in rulesets
    /\ files = NoFiles
    /\ ret = NoRet
    /\ runs = [p \in Projects |-> <<>>]
    /\ reading = [p \in Projects |-> <<>>]

\* the engine: the three stages, called on any project in any order
Init == InitWith(RouteScenarios, {DefaultRules})

Next ==
    \E project_id \in Projects :
        \/ GenerateCandidates(project_id)
        \/ SelectDevices(project_id)
        \/ RouteAll(project_id)

Spec == Init /\ [][Next]_vars

\* placement alone, on the richer room inputs and the rule sets
InitPlace ==
    \/ InitWith(PlaceScenarios, RuleSets)
    \/ InitWith({LongWalls}, {DenseRules})
    \/ InitWith({Scenario(<<RoomPolygon(RoomS)>>, <<>>, FALSE, Absent, Absent, 0)}, {PairedRules})
    \/ InitWith({Scenario(<<RoomPolygon(FlatRoom), RoomDict("", TinyRoom)>>, <<>>,
                           FALSE, Absent, Absent, 0)}, {DefaultRules})
    \/ InitWith({Scenario(<<RoomDict("", Corridor)>>, <<>>, FALSE, Absent, Absent, 0)},
                {SparseRules})

NextPlace ==
    \E project_id \in Projects :
        \/ GenerateCandidates(project_id)
        \/ SelectDevices(project_id)

SpecPlace == InitPlace /\ [][NextPlace]_vars

\* the two handlers of main.py
InitApi == InitWith(ApiScenarios, {DefaultRules})

NextApi ==
    \E project_id \in Projects :
        \/ Place(project_id)
        \/ Route(project_id)

SpecApi == InitApi /\ [][NextApi]_vars

\* two projects side by side: the smallest rooms (a switch and no socket
\* each), the first with a wall raster, the second without

PairScenarios ==
    { << Scenario(<<RoomPolygon(NookA)>>, <<>>, TRUE, OneWall, Absent, 0),
         Scenario(<<RoomPolygon(NookB)>>, <<>>, FALSE, Absent, Absent, 0) >>,
      << Scenario(<<RoomPolygon(NookA)>>, <<>>, TRUE, BlankMask, Absent, 2),
         Scenario(<<RoomPolygon(NookB)>>, <<>>, TRUE, CornerBlock, Absent, 0) >> }

InitPair ==
    /\ \E sc \in PairScenarios :
          /\ DB = Loaded(Loaded(EmptyDB, "p1", sc[1]), "p2", sc[2])
          /\ bucket = [k \in Keys |-> IF k = WallsKey("p1") THEN sc[1].walls
                                      ELSE IF k = WallsKey("p2") THEN sc[2].walls
                                      ELSE Absent]
    /\ rules = DefaultRules
    /\ files = NoFiles
    /\ ret = NoRet
    /\ runs = [p \in Projects |-> <<>>]
    /\ reading = [p \in Projects |-> <<>>]

SpecPair == InitPair /\ [][Next]_vars

\* the handlers of main.py on the event loop and get_state on a worker thread
NextState ==
    \E project_id \in Projects :
        \/ Place(project_id)
        \/ Route(project_id)
        \/ GetStateRead(project_id)
        \/ GetStateWrite(project_id)

InitState ==
    InitWith({Scenario(<<RoomPolygon(NookA)>>, <<>>, FALSE, Absent, Absent, 0),
              Scenario(<<RoomPolygon(NookA), RoomPolygon(NookB)>>, <<>>, TRUE, OneWall, Absent, 2)},
             {DefaultRules})

SpecState == InitState /\ [][NextState]_vars

\* _astar by itself: every 4 x 3 grid with at most MaxBlocked blocked cells,
\* any start cell (two of them outside the grid) and three goals (one outside)
MaxBlocked == 3

AstarCells == (0..3) \X (0..2)

AstarGrids ==
    {[w |-> 4, h |-> 3, ds |-> 2, blocked |-> b] :
        b \in {x \in SUBSET AstarCells : Cardinality(x) <= MaxBlocked}}

\* path = _astar(occ, start, goal)
AstarCall ==
    /\ ret.op = ""
    /\ \E occ \in AstarGrids :
       \E start \in AstarCells \cup {<<4, 0>>, <<-1, 2>>} :
       \E goal \in {<<3, 2>>, <<1, 1>>, <<0, 3>>} :
       \E path \in {astar(occ, start, goal)} :
          ret' = [NoRet EXCEPT !.op = "_astar", !.cands = <<start, goal>>,
                                !.found = <<occ>>, !.out = path]
    /\ UNCHANGED <<DB, rules, bucket, files, runs, reading>>

InitAstar == InitWith({Scenario(<<>>, <<>>, FALSE, Absent, Absent, 0)}, {DefaultRules})

SpecAstar == InitAstar /\ [][AstarCall]_vars

\* _nearest_free_cell by itself: every 4 x 3 grid with at most MaxFree free
\* cells, any cell up to two steps outside the grid, small radii and the two
\* radii of route_all
MaxFree == 2

NearestGrids ==
    {[w |-> 4, h |-> 3, ds |-> 2, blocked |-> AstarCells \ f] :
        f \in {x \in SUBSET AstarCells : Cardinality(x) <= MaxFree}}

\* out = _nearest_free_cell(occ, cell, max_r)
NearestCall ==
    /\ ret.op = ""
    /\ \E occ \in NearestGrids :
       \E cell \in (-2..5) \X (-2..4) :
       \E max_r \in {0, 1, 2, 35, 60} :
       \E out \in {nearest_free_cell(occ, cell, max_r)} :
          ret' = [NoRet EXCEPT !.op = "_nearest_free_cell", !.cands = <<cell, max_r>>,
                                !.found = <<occ>>, !.out = out]
    /\ UNCHANGED <<DB, rules, bucket, files, runs, reading>>

SpecNearest == InitAstar /\ [][NearestCall]_vars

\* The loops of route_all and of _astar, one pass at a time.  While a call is
\* in progress ret holds its local variables and nothing else runs.
Running == {"route_all_loop", "_astar_loop"}

RunScenarios ==
    { Scenario(<<RoomPolygon(NookC)>>, <<>>, FALSE, Absent, Absent, 0),
      Scenario(<<RoomPolygon(NookC)>>, <<>>, TRUE, AllWalls, Absent, 0),
      Scenario(<<RoomPolygon(NookA), RoomPolygon(NookB)>>, <<>>, TRUE, OneWall, Absent, 0),
      Scenario(<<RoomPolygon(NookC)>>, <<>>, TRUE, BlankMask, Absent, 0),
      Scenario(<<>>, <<>>, TRUE, BlankMask, Absent, 0) }

\* what each attempt of the ladder gives for each device: a function of the
\* devices and the mask files, which stay as they are during the call
attempt_table(project_id, devices) ==
    [i \in 1..Len(devices) |->
        [k \in 1..Len(attempts) |->
            try_attempt(walls_file(project_id), free_space_of(project_id),
                        devices[i][3], DEFAULT_PANEL_ANCHOR_PX, k)]]

\* lines 341-411 of route_all: the devices, the mask files, an empty route
\* list.  ret.found holds the index of the next attempt, the attempts made for
\* the device in turn, the attempts that were made for each device before it,
\* the index of the first attempt, and the table of the attempts
RouteAllBegin(project_id) ==
    /\ ret.op \notin Running
    /\ files' = files_after_route(project_id)
    /\ \E devices \in {normalize_devices(project_id)} :
       \E first \in {IF has_walls(project_id) THEN 1 ELSE Len(attempts) + 1} :
       \E table \in {IF first = 1 THEN attempt_table(project_id, devices) ELSE <<>>} :
          ret' = [NoRet EXCEPT !.op = "route_all_loop", !.pid = project_id,
                               !.cands = devices,
                               !.found = <<first, 0, <<>>, first, table>>]
    /\ UNCHANGED <<DB, rules, bucket, runs, reading>>

\* one pass of the inner loop (lines 414-436) for the device in turn, or, after
\* the last attempt, the straight line (lines 438-442)
RouteAllAttempt(project_id) ==
    /\ ret.op = "route_all_loop" /\ ret.pid = project_id
    /\ Len(ret.out) < Len(ret.cands)
    /\ LET i == Len(ret.out) + 1
           d == ret.cands[i]
           px_per_m == get_px_per_meter(project_id)
           done(coords, n) ==
               [ret EXCEPT !.out = Append(@, make_route(d[1], coords, px_per_m)),
                           !.found[1] = ret.found[4], !.found[2] = 0,
                           !.found[3] = Append(@, n)]
       IN IF ret.found[1] > Len(attempts)
          THEN ret' = done(straight_line(d[3], DEFAULT_PANEL_ANCHOR_PX), ret.found[2])
          ELSE LET a == ret.found[5][i][ret.found[1]]
               IN ret' = IF a.ok THEN done(a.coords, ret.found[2] + 1)
                         ELSE [ret EXCEPT !.found[1] = @ + 1, !.found[2] = @ + 1]
    /\ UNCHANGED <<DB, rules, bucket, files, runs, reading>>

\* lines 447-448: store the routes and return them
RouteAllEnd(project_id) ==
    /\ ret.op = "route_all_loop" /\ ret.pid = project_id
    /\ Len(ret.out) = Len(ret.cands)
    /\ DB' = after_route(project_id, ret.out)
    /\ ret' = [ret EXCEPT !.op = "route_all"]
    /\ UNCHANGED <<rules, bucket, files, runs, reading>>

RunGrids ==
    {[w |-> 4, h |-> 3, ds |-> 2, blocked |-> b] :
        b \in { {}, {<<1, 1>>}, {<<1, 0>>, <<1, 1>>}, {<<1, 1>>, <<2, 1>>},
                {<<2, 0>>, <<1, 1>>, <<2, 2>>}, {<<1, 0>>, <<1, 1>>, <<1, 2>>} }}

\* _astar up to its loop (lines 211-233), on a store without rooms
AstarBegin ==
    /\ ret.op = "" /\ DB.rooms = EmptyDB.rooms
    /\ \E occ \in RunGrids : \E start \in AstarCells : \E goal \in {<<3, 2>>, <<0, 1>>} :
          ret' = IF start \in occ.blocked \/ goal \in occ.blocked
                 THEN [NoRet EXCEPT !.op = "_astar", !.cands = <<start, goal>>,
                                    !.found = <<occ, <<>> >>]
                 ELSE [NoRet EXCEPT !.op = "_astar_loop", !.cands = <<start, goal>>,
                                    !.found = <<occ, <<>> >>,
                                    !.out = <<astar_start(occ, start, goal)>>]
    /\ UNCHANGED <<DB, rules, bucket, files, runs, reading>>

\* one pass of the while loop (lines 235-264).  ret.out[1] holds the loop's
\* variables, ret.out[2] the value returned; ret.found[2] lists the cells the
\* passes went on to close, in order
AstarPass ==
    /\ ret.op = "_astar_loop"
    /\ LET occ == ret.found[1]
           goal == ret.cands[2]
           st == ret.out[1]
       IN IF st.open_heap = {}
          THEN ret' = [ret EXCEPT !.op = "_astar", !.out = <<st, <<>> >>]
          ELSE LET e == HeapMin(st.open_heap)
                   cur == <<e[3], e[4]>>
                   seen == IF cur \in st.closed THEN ret.found[2]
                           ELSE Append(ret.found[2], cur)
               IN IF cur \notin st.closed /\ cur = goal
                  THEN ret' = [ret EXCEPT !.op = "_astar", !.found[2] = seen,
                                          !.out = <<st, path_back(st.came_from, <<cur>>)>>]
                  ELSE \E n \in {astar_step(occ, goal, st)} :
                          ret' = [ret EXCEPT !.found[2] = seen, !.out = <<n>>]
    /\ UNCHANGED <<DB, rules, bucket, files, runs, reading>>

InitRun == InitWith(RunScenarios, {DefaultRules})

\* a pass of a call in progress
RunStep ==
    \/ \E project_id \in Projects : RouteAllAttempt(project_id) \/ RouteAllEnd(project_id)
    \/ AstarPass

NextRun ==
    \/ /\ ret.op \notin Running
       /\ \E project_id \in Projects :
             \/ GenerateCandidates(project_id)
             \/ SelectDevices(project_id)
             \/ RouteAllBegin(project_id)
    \/ AstarBegin
    \/ RunStep

\* a call that has started goes on executing
SpecRun == InitRun /\ [][NextRun]_vars /\ WF_vars(RunStep)

\* structure_detect.detect_structure on a new image of the project: the wall
\* mask it builds is uploaded under the project's key (lines 478-486) and the
\* plan graph and the structure record are replaced (lines 514-523).  The
\* mask is the outcome of the image analysis, an input here; the openings
\* found are taken to be the ones found before
DetectStructure(project_id) ==
    /\ \E walls \in {BlankMask, OneWall, SplitWall} :
          bucket' = [bucket EXCEPT ![WallsKey(project_id)] = walls]
    /\ DB' = [DB EXCEPT
                !.structure[project_id] =
                    [openings |-> DB.structure[project_id].openings,
                     walls_mask_key |-> WallsKey(project_id),
                     free_space_mask_key |-> ""],
                !.plan_graph[project_id] =
                    [present |-> TRUE, wallsMaskKey |-> WallsKey(project_id),
                     freeSpaceMaskKey |-> "", pxPerMeter |-> 0,
                     rooms |-> DB.rooms[project_id],
                     openings |-> DB.structure[project_id].openings]]
    /\ ret' = [NoRet EXCEPT !.op = "detect_structure", !.pid = project_id]
    /\ UNCHANGED <<rules, files, runs, reading>>

DetectScenarios ==
    { Scenario(<<RoomPolygon(NookA)>>, <<>>, FALSE, Absent, Absent, 0),
      Scenario(<<RoomPolygon(NookA)>>, <<>>, TRUE, OneWall, Absent, 0) }

InitDetect == InitWith(DetectScenarios, {DefaultRules})

NextDetect ==
    \/ Next
    \/ DetectStructure("p1")

\* the engine with structure detection run again between the stages
SpecDetect == InitDetect /\ [][NextDetect]_vars

(***************************************************************************)
(* Properties.  ret is the last call: ret.cands is the device list a       *)
(* route_all call routed (the candidate list for the placement calls),     *)
(* ret.out what the call returned, ret.found the ladder result per device. *)
(***************************************************************************)
LastPoint(line) == line[Len(line)]

\* C1: every route returned by route_all, grid-routed or fallback, starts at
\* the position of the device it was computed for and ends at the panel anchor
\* of the run.
C1_RouteEndpoints ==
    ret.op = "route_all" =>
        \A i \in 1..Len(ret.out) :
            /\ i <= Len(ret.cands)
            /\ ret.out[i][2][1] = ret.cands[i][3]
            /\ LastPoint(ret.out[i][2]) = DEFAULT_PANEL_ANCHOR_PX

\* a run that returned a grid-routed line through at least one cell centre
C1_GridRouted ==
    /\ ret.op = "route_all"
    /\ \E i \in 1..Len(ret.out) : ret.found[i].attempt > 0 /\ Len(ret.out[i][2]) >= 3

\* no attempt of the ladder finds a path of two cells for the device at p
NoAttemptFindsPath(project_id, p) ==
    \A k \in 1..Len(attempts) :
        Len(attempt_path(build_occupancy(walls_file(project_id), free_space_of(project_id),
                                         attempts[k][1], attempts[k][2]),
                         p, DEFAULT_PANEL_ANCHOR_PX)) < 2

\* C2: route_all returns exactly one route per device of the project, and a
\* device's route is the two-point line <<device, panel>> whenever the wall
\* raster is missing or unreadable or no attempt of the ladder finds a path
\* (a fully blocked 1 x 1 raster included).
C2_OneRoutePerDevice ==
    ret.op = "route_all" =>
        /\ ret.cands = normalize_devices(ret.pid)
        /\ Len(ret.out) = Len(ret.cands)
        /\ \A i \in 1..Len(ret.cands) :
              (~has_walls(ret.pid) \/ NoAttemptFindsPath(ret.pid, ret.cands[i][3]))
                  => ret.out[i][2] = <<ret.cands[i][3], DEFAULT_PANEL_ANCHOR_PX>>

\* a run on a readable raster with free cells in which a device got the
\* straight line because no path exists
C2_NoPathFallback ==
    /\ ret.op = "route_all"
    /\ has_walls(ret.pid)
    /\ FreeCells(build_occupancy(walls_file(ret.pid), free_space_of(ret.pid), 4, 0)) # {}
    /\ \E i \in 1..Len(ret.out) :
          /\ NoAttemptFindsPath(ret.pid, ret.cands[i][3])
          /\ ret.out[i][2] = <<ret.cands[i][3], DEFAULT_PANEL_ANCHOR_PX>>

\* C3: in every selection select_devices returns from a solved model (status
\* OPTIMAL or FEASIBLE), each room has at most the configured socket_max
\* SOCKET devices and, when the room had a SWITCH candidate, at least the
\* configured min_switches SWITCH devices.
C3_ConfiguredBounds ==
    (ret.op = "select_devices" /\ ret.status \in {"OPTIMAL", "FEASIBLE"}) =>
        \A rid \in room_ids_of(ret.cands) :
            /\ Cardinality(idxs_of(ret.out, rid, "SOCKET")) <= get_rules.socket_max
            /\ idxs_of(ret.cands, rid, "SWITCH") # {}
                  => Cardinality(idxs_of(ret.out, rid, "SWITCH")) >= get_rules.min_switches

\* C4: when the solve ends with a status other than OPTIMAL or FEASIBLE,
\* select_devices returns the empty selection and the stored device list of
\* the project is empty.
C4_UnsolvedIsEmpty ==
    (ret.op = "select_devices" /\ ret.status \notin {"OPTIMAL", "FEASIBLE"}) =>
        /\ ret.out = <<>>
        /\ DB.devices[ret.pid].items = <<>>

\* a solve over a non-empty candidate list that ended without a solution
C4_TimedOut ==
    /\ ret.op = "select_devices"
    /\ ret.status = "UNKNOWN"
    /\ ret.cands # <<>>
    /\ DB.devices[ret.pid].items = <<>>

\* the rooms of the last generate_candidates call, their doors and switches
HasDoor(project_id, rid) ==
    \E i \in 1..Len(openings_for_room(project_id, rid)) :
        openings_for_room(project_id, rid)[i].kind = "door"

DoorSegs(project_id, rid) ==
    {opening_seg(openings_for_room(project_id, rid)[i]) :
        i \in {j \in 1..Len(openings_for_room(project_id, rid)) :
                 /\ openings_for_room(project_id, rid)[j].kind = "door"
                 /\ opening_seg(openings_for_room(project_id, rid)[j]) # <<>>}}

SwitchAt(cands, rid) == cands[CHOOSE i \in idxs_of(cands, rid, "SWITCH") : TRUE][3]

\* C5 as stated: for every room with at least one door opening, the SWITCH
\* candidate of generate_candidates lies inside the room's polygon.
C5_SwitchInsideRoom ==
    ret.op = "generate_candidates" =>
        \A i \in 1..Len(rooms_as_polygons(ret.pid)) :
            HasDoor(ret.pid, room_id(i - 1))
                => Contains(rooms_as_polygons(ret.pid)[i], SwitchAt(ret.out, room_id(i - 1)))

\* C5, amended: for every room with a door opening that has a usable segment,
\* the SWITCH candidate lies inside the room's polygon, or it is the midpoint
\* of a door segment neither of whose two offset points lies inside the room.
C5_SwitchInsideOrDoorMidpoint ==
    ret.op = "generate_candidates" =>
        \A i \in 1..Len(rooms_as_polygons(ret.pid)) :
            LET room == rooms_as_polygons(ret.pid)[i]
                sw == SwitchAt(ret.out, room_id(i - 1))
            IN DoorSegs(ret.pid, room_id(i - 1)) # {} =>
                  \/ Contains(room, sw)
                  \/ \E seg \in DoorSegs(ret.pid, room_id(i - 1)) :
                        /\ sw = Midpoint(seg)
                        /\ ~Contains(room, offset_points(room, Midpoint(seg), seg)[1])
                        /\ ~Contains(room, offset_points(room, Midpoint(seg), seg)[2])

\* a room whose switch is the second offset point, the first one lying in the
\* neighbouring room
C5_SecondSideChosen ==
    /\ ret.op = "generate_candidates"
    /\ \E i \in 1..Len(rooms_as_polygons(ret.pid)) :
          \E seg \in DoorSegs(ret.pid, room_id(i - 1)) :
              LET room == rooms_as_polygons(ret.pid)[i]
                  ps == offset_points(room, Midpoint(seg), seg)
              IN /\ ~Contains(room, ps[1])
                 /\ Contains(room, ps[2])
                 /\ SwitchAt(ret.out, room_id(i - 1)) = ps[2]

\* fractions <<n, d>> with d > 0
FracLess(a, b) == a[1] * b[2] < b[1] * a[2]
FracMax(a, b) == IF FracLess(a, b) THEN b ELSE a
FracMin(a, b) == IF FracLess(a, b) THEN a ELSE b

\* the open interval of t for which p + t * d lies strictly between lo and hi
AxisSpan(p, d, lo, hi) ==
    IF d = 0
    THEN (IF lo < p /\ p < hi THEN [lo |-> <<-1, 1>>, hi |-> <<2, 1>>]
                              ELSE [lo |-> <<1, 1>>, hi |-> <<0, 1>>])
    ELSE IF d > 0 THEN [lo |-> <<lo - p, d>>, hi |-> <<hi - p, d>>]
    ELSE [lo |-> <<p - hi, 0 - d>>, hi |-> <<p - lo, 0 - d>>]

\* the segment from a to b has a point in the interior of the grid cell c
PassesThrough(a, b, ds, c) ==
    LET sx == AxisSpan(a[1], b[1] - a[1], 60 * ds * c[1], 60 * ds * (c[1] + 1))
        sy == AxisSpan(a[2], b[2] - a[2], 60 * ds * c[2], 60 * ds * (c[2] + 1))
        lo == FracMax(sx.lo, sy.lo)
        hi == FracMin(sx.hi, sy.hi)
    IN FracLess(lo, hi) /\ FracLess(lo, <<1, 1>>) /\ FracLess(<<0, 1>>, hi)

\* C6: no segment of a route accepted from a ladder attempt passes through a
\* blocked cell of that attempt's occupancy grid, the first and last segments
\* and diagonal steps included.
C6_RoutesAvoidBlockedCells ==
    ret.op = "route_all" =>
        \A i \in 1..Len(ret.out) :
            ret.found[i].attempt > 0 =>
                \A j \in 1..(Len(ret.out[i][2]) - 1) :
                    \A c \in ret.found[i].occ.blocked :
                        ~PassesThrough(ret.out[i][2][j], ret.out[i][2][j + 1],
                                       ret.found[i].occ.ds, c)

\* C7: the selection returned by select_devices has no more devices than any
\* subset of the candidates that satisfies the per-room constraints.
C7_MinimumCount ==
    ret.op = "select_devices" =>
        \A xs \in FeasibleSets(ret.cands) : Len(ret.out) <= Cardinality(xs)

\* the step that ends a placement run of project p
PlacementRunEnds(p) == ret'.op = "select_devices" /\ ret'.pid = p

\* the project had an earlier run on the rooms, openings and rules it has now
RanBefore(p) == runs[p] # <<>> /\ runs[p][1].input = PlacementInput(p)

C9_ReplacedWholesale ==
    /\ ret.op = "select_devices" => DB.devices[ret.pid] = Stored("tuple", ret.out)
    /\ ret.op = "route_all" =>
          /\ DB.routes[ret.pid] = Stored("tuple", ret.out)
          /\ ret.cands = <<>> => DB.routes[ret.pid].items = <<>>

\* a placement run that selected nothing, for a project whose earlier devices
\* had been routed
C9_EmptySelectionAfterRoutes ==
    /\ ret.op = "select_devices"
    /\ ret.out = <<>>
    /\ DB.routes[ret.pid].items # <<>>
    /\ DB.devices[ret.pid].items = <<>>

\* C10: route_all leaves the stored devices, candidates, rooms, openings and
\* plan graph as they were, and generate_candidates and select_devices leave
\* the rooms and openings as they were.
C10_EarlierStagesUntouched ==
    [][/\ ret'.op = "route_all" =>
            /\ DB'.devices = DB.devices
            /\ DB'.candidates = DB.candidates
            /\ DB'.rooms = DB.rooms
            /\ DB'.structure = DB.structure
            /\ DB'.plan_graph = DB.plan_graph
       /\ ret'.op \in {"generate_candidates", "select_devices"} =>
            /\ DB'.rooms = DB.rooms
            /\ DB'.structure = DB.structure
            /\ DB'.plan_graph = DB.plan_graph]_vars

\* a routing run that returned routes for stored devices and candidates
C10_RoutedStoredDevices ==
    /\ ret.op = "route_all"
    /\ ret.out # <<>>
    /\ DB.devices[ret.pid].items # <<>>
    /\ DB.candidates[ret.pid] # <<>>

\* C11: a placement run writes only the device set of the store: the
\* candidate lists (and every other entry) are after the run what they were
\* before it.
C11_CandidatesNotStored ==
    [][ret'.op \in {"generate_candidates", "select_devices"}
          => DB' = [DB EXCEPT !.devices = DB'.devices]]_vars

\* the entries of project q in the store and among the local files
EntriesOf(db, fs, q) ==
    <<db.rooms[q], db.devices[q], db.candidates[q], db.routes[q],
      db.structure[q], db.plan_graph[q], fs[q]>>

\* C12: a call of generate_candidates, select_devices or route_all on one
\* project leaves every entry of every other project as it was.
C12_OtherProjectsUntouched ==
    [][\A q \in Projects \ {ret'.pid} :
          EntriesOf(DB', files', q) = EntriesOf(DB, files, q)]_vars

\* a routing run on one project while the other has devices and routes of
\* its own
C12_BothProjectsRouted ==
    /\ ret.op = "route_all"
    /\ ret.out # <<>>
    /\ \E q \in Projects \ {ret.pid} :
          /\ DB.devices[q].items # <<>>
          /\ DB.routes[q].items # <<>>
          /\ DB.routes[q] # DB.routes[ret.pid]

\* C13: the stored device list of a project is always the one its last
\* placement run wrote (in tuple or in JSON form): no get_state call puts an
\* older list back over it.
C13_PlacementNotOverwritten ==
    \A p \in Projects :
        runs[p] # <<>> =>
            state_devices_to_json(DB.devices[p]) = devices_to_json(runs[p][1].selected)

\* C14: a route taken from a ladder attempt differs, as a value, from the
\* route the straight-line fallback gives the same device: the route itself
\* tells which of the two it is.
C14_FallbackDistinguishable ==
    ret.op = "route_all" =>
        \A i \in 1..Len(ret.out) :
            ret.found[i].attempt > 0 =>
                ret.out[i] # make_route(ret.cands[i][1],
                                        straight_line(ret.cands[i][3], DEFAULT_PANEL_ANCHOR_PX),
                                        get_px_per_meter(ret.pid))

\* the openings a routing run reads (plan graph first, structure record next)
PanelOpenings(p) ==
    IF DB.plan_graph[p].present /\ DB.plan_graph[p].openings # <<>>
    THEN DB.plan_graph[p].openings
    ELSE DB.structure[p].openings

\* the anchors the priority order allows: next to an entry door (a door with
\* at most one room reference) inside the room it references, else the
\* centroid of the first room, else the default coordinate
AllowedPanels(p) ==
    LET rooms == rooms_as_polygons(p)
        ops == PanelOpenings(p)
        entry == {<<i, j>> \in (1..Len(ops)) \X (1..Len(rooms)) :
                    /\ ops[i].kind = "door"
                    /\ opening_seg(ops[i]) # <<>>
                    /\ Cardinality(ops[i].roomRefs) <= 1
                    /\ room_id(j - 1) \in ops[i].roomRefs}
    IN IF entry # {}
       THEN {offset_inside(rooms[e[2]], Midpoint(opening_seg(ops[e[1]])),
                           opening_seg(ops[e[1]])) : e \in entry}
       ELSE IF rooms # <<>> THEN {Centroid(rooms[1])}
       ELSE {DEFAULT_PANEL_ANCHOR_PX}

\* C15: every route of a routing run ends at an anchor the priority order
\* allows; the default coordinate only when the project has neither an entry
\* door nor a room.
C15_PanelByPriority ==
    ret.op = "route_all" =>
        \A i \in 1..Len(ret.out) : LastPoint(ret.out[i][2]) \in AllowedPanels(ret.pid)

\* C16: for every room without a door opening, the SWITCH candidate of
\* generate_candidates is the first vertex of the room's polygon.
C16_SwitchAtFirstVertex ==
    ret.op = "generate_candidates" =>
        \A i \in 1..Len(rooms_as_polygons(ret.pid)) :
            ~HasDoor(ret.pid, room_id(i - 1))
                => SwitchAt(ret.out, room_id(i - 1)) = rooms_as_polygons(ret.pid)[i][1]

\* a stored room with fewer than three vertices or without area
Degenerate(r) == Len(r.polygon) < 3 \/ Area2(r.polygon) <= 0

\* C17: generate_candidates returns the candidates of the rooms that are not
\* degenerate, in their order, and nothing for a degenerate room.
C17_DegenerateRoomsDropped ==
    ret.op = "generate_candidates" =>
        LET good == SelectSeq(DB.rooms[ret.pid], LAMBDA r : ~Degenerate(r))
        IN ret.out = Concat([i \in 1..Len(good) |->
                               room_candidates(ret.pid, i - 1, good[i].polygon)])

\* the straight segment from a to b passes through no pixel of the wall
\* raster dilated by dilate_px
ClearOfWalls(img, dilate_px, a, b) ==
    \A x \in 0..(img.w - 1) : \A y \in 0..(img.h - 1) :
        WallPixel(img, dilate_px, x, y) => ~PassesThrough(a, b, 1, <<x, y>>)

\* C18: on a readable wall raster, a device whose straight segment to the
\* panel crosses no wall pixel dilated by 3 gets its route from the first
\* attempt (8, 3), and the length of that line is at least the straight
\* distance (up to the rounding of one unit per segment) and at most 3 times
\* it.
C18_ClearLineFirstAttempt ==
    (ret.op = "route_all" /\ has_walls(ret.pid)) =>
        \A i \in 1..Len(ret.out) :
            LET p == ret.cands[i][3]
                direct == LineLength(<<p, DEFAULT_PANEL_ANCHOR_PX>>)
                routed == LineLength(ret.out[i][2])
            IN ClearOfWalls(walls_file(ret.pid), 3, p, DEFAULT_PANEL_ANCHOR_PX) =>
                  /\ ret.found[i].attempt = 1
                  /\ routed + Len(ret.out[i][2]) >= direct
                  /\ routed <= 3 * direct

\* C19: the attempts are (8,3),(8,2),(6,2),(6,1),(4,1),(4,0) in this order;
\* on a readable raster a device's line is the line of the first attempt that
\* has a free cell for both ends, a path of at least two cells and a line of
\* nonzero length, every earlier attempt having been skipped; when every
\* attempt is skipped the line is the straight one.
C19_FirstAttemptThatSucceeds ==
    /\ attempts = << <<8, 3>>, <<8, 2>>, <<6, 2>>, <<6, 1>>, <<4, 1>>, <<4, 0>> >>
    /\ (ret.op = "route_all" /\ has_walls(ret.pid)) =>
          \A i \in 1..Len(ret.out) :
              LET p == ret.cands[i][3]
                  k == ret.found[i].attempt
                  path(j) == attempt_path(build_occupancy(walls_file(ret.pid),
                                                          free_space_of(ret.pid),
                                                          attempts[j][1], attempts[j][2]),
                                          p, DEFAULT_PANEL_ANCHOR_PX)
                  line(j) == route_coords(path(j), Max2(2, attempts[j][1]), p,
                                          DEFAULT_PANEL_ANCHOR_PX)
                  skipped(j) == Len(path(j)) < 2 \/ ~HasLength(line(j))
              IN /\ k \in 0..Len(attempts)
                 /\ \A j \in 1..(IF k = 0 THEN Len(attempts) ELSE k - 1) : skipped(j)
                 /\ k > 0 => /\ ~skipped(k)
                             /\ ret.out[i][2] = line(k)
                             /\ ret.found[i].occ.ds = Max2(2, attempts[k][1])
                 /\ k = 0 => ret.out[i][2] = <<p, DEFAULT_PANEL_ANCHOR_PX>>

\* a device whose line comes from a later attempt, the coarsest one having
\* been skipped
C19_LaterAttemptTaken ==
    /\ ret.op = "route_all"
    /\ \E i \in 1..Len(ret.out) : ret.found[i].attempt > 1 /\ Len(ret.out[i][2]) >= 2

\* the cost of one 8-connected step in 1/1000 of a cell (0: not a step)
StepCost(a, b) ==
    IF Cheb(a, b) # 1 THEN 0
    ELSE IF a[1] = b[1] \/ a[2] = b[2] THEN 1000 ELSE 1414

PathCost(path) == SumSeq([i \in 1..(Len(path) - 1) |-> StepCost(path[i], path[i + 1])])

\* one round of relaxation of the distances from the start over the free cells
Relax(occ, dist) ==
    [c \in DOMAIN dist |->
        LET via == {dist[d] + StepCost(d, c) :
                      d \in {e \in DOMAIN dist : Cheb(e, c) = 1 /\ dist[e] < Unreached}}
        IN IF via = {} THEN dist[c]
           ELSE Min2(dist[c], CHOOSE v \in via : \A u \in via : v <= u)]

RECURSIVE Settle(_, _)
Settle(occ, dist) ==
    CHOOSE r \in {IF nxt = dist THEN dist ELSE Settle(occ, nxt) :
                    nxt \in {Relax(occ, dist)}} : TRUE

\* the least cost of an 8-connected walk over free cells from start to every
\* free cell (Unreached where there is none)
LeastCosts(occ, start) ==
    Settle(occ, [c \in FreeCells(occ) |-> IF c = start THEN 0 ELSE Unreached])

\* C20: _astar returns no path when start or goal is outside the grid or
\* blocked; otherwise it returns a path exactly when the goal can be reached
\* from the start over free cells by 8-connected steps, and the path goes
\* from start to goal by 8-connected steps over free cells of the grid at the
\* least cost (1 per orthogonal step, sqrt 2 per diagonal step).
C20_AstarShortestPath ==
    ret.op = "_astar" =>
        LET occ == ret.found[1]
            start == ret.cands[1]
            goal == ret.cands[2]
            path == ret.out
        IN IF ~(InGrid(occ, start) /\ InGrid(occ, goal))
              \/ start \in occ.blocked \/ goal \in occ.blocked
           THEN path = <<>>
           ELSE LET least == LeastCosts(occ, start)[goal]
                IN /\ (path # <<>>) <=> (least < Unreached)
                   /\ path # <<>> =>
                        /\ path[1] = start
                        /\ path[Len(path)] = goal
                        /\ \A i \in 1..Len(path) :
                              InGrid(occ, path[i]) /\ path[i] \notin occ.blocked
                        /\ \A i \in 1..(Len(path) - 1) : Cheb(path[i], path[i + 1]) = 1
                        /\ PathCost(path) = least

\* a path that goes around blocked cells: longer than the straight walk
C20_Detour ==
    /\ ret.op = "_astar"
    /\ ret.out # <<>>
    /\ ret.found[1].blocked # {}
    /\ PathCost(ret.out) >
          LeastCosts([ret.found[1] EXCEPT !.blocked = {}], ret.cands[1])[ret.cands[2]]

\* C21: _nearest_free_cell returns the given cell when it is a free cell of
\* the grid; otherwise a free cell of the grid whose ring distance to the
\* given cell is the least among the free cells and at most max_r, and none
\* exactly when no free cell lies within max_r.
C21_NearestFreeCell ==
    ret.op = "_nearest_free_cell" =>
        LET occ == ret.found[1]
            cell == ret.cands[1]
            max_r == ret.cands[2]
            out == ret.out
            within == {c \in FreeCells(occ) : Cheb(c, cell) <= max_r}
        IN IF InGrid(occ, cell) /\ cell \notin occ.blocked THEN out = cell
           ELSE /\ (out = <<>>) <=> (within = {})
                /\ out # <<>> =>
                     /\ out \in FreeCells(occ)
                     /\ Cheb(out, cell) <= max_r
                     /\ \A c \in FreeCells(occ) : Cheb(out, cell) <= Cheb(c, cell)

\* a cell outside the grid snapped to a free cell two or more rings away
C21_SnappedFromOutside ==
    /\ ret.op = "_nearest_free_cell"
    /\ ~InGrid(ret.found[1], ret.cands[1])
    /\ ret.out # <<>>
    /\ Cheb(ret.out, ret.cands[1]) >= 2
    /\ Cardinality(FreeCells(ret.found[1])) >= 2

\* the SOCKET points of room rid, in the order of the list
SocketsOf(cands, rid) ==
    LET own == SelectSeq(cands, LAMBDA c : c[1] = "SOCKET" /\ c[2] = rid)
    IN [i \in 1..Len(own) |-> own[i][3]]

\* 1 / max(density, 0.2), in 1/60 of a unit (the density is in tenths)
StepOf(density) == IF density >= 2 THEN 600 \div density ELSE 300

\* the distances 0.3 + k * step that are strictly less than L - 0.3
EdgeDistances(edge, step) ==
    LET far == {k \in 0..20 : (36 + k * step) * (36 + k * step) < Len2(edge[1], edge[2])}
    IN [i \in 1..Cardinality(far) |-> 18 + (i - 1) * step]

\* p is at least max(0.03 * sqrt(area), 0.25) away from the segment
ClearOfOpening(room, seg, p) ==
    /\ SegDist2(seg, p) >= 15 * 15
    /\ \/ SegDist2(seg, p) >= 100000
       \/ 20000 * SegDist2(seg, p) >= 9 * Max2(2 * 3600, Area2(room))

\* the segments of the openings that reference room rid
OpeningSegs(project_id, rid) ==
    LET os == DB.structure[project_id].openings
    IN {os[i].segment : i \in {j \in 1..Len(os) : rid \in os[j].roomRefs /\ os[j].segment # <<>>}}

ExpectedSockets(project_id, rid, room) ==
    LET walls == [i \in 1..Len(room) |-> <<room[i], room[NextIdx(room, i)]>>]
        onEdge(e) == LET ts == EdgeDistances(e, StepOf(rules.socket_per_wall_meter))
                     IN [i \in 1..Len(ts) |-> Interpolate(e, ts[i])]
        clear(p) == \A seg \in OpeningSegs(project_id, rid) : ClearOfOpening(room, seg, p)
    IN Concat([i \in 1..Len(walls) |-> SelectSeq(onEdge(walls[i]), clear)])

\* C22: the SOCKET candidates of a room are, edge by edge, the points at the
\* distances 0.3 + k * step (step = 1 / max(density, 0.2)) strictly less than
\* L - 0.3, without those closer than the clearance to an opening segment of
\* the room; none lies closer than the clearance to an opening of its room,
\* and an edge with L <= 0.6 contributes none.
C22_SocketsAlongEdges ==
    ret.op = "generate_candidates" =>
        LET rooms == rooms_as_polygons(ret.pid)
        IN \A i \in 1..Len(rooms) :
              LET rid == room_id(i - 1)
              IN /\ SocketsOf(ret.out, rid) = ExpectedSockets(ret.pid, rid, rooms[i])
                 /\ \A k \in 1..Len(SocketsOf(ret.out, rid)) :
                       \A seg \in OpeningSegs(ret.pid, rid) :
                          ClearOfOpening(rooms[i], seg, SocketsOf(ret.out, rid)[k])
                 /\ (\A j \in 1..Len(rooms[i]) :
                        Len2(rooms[i][j], rooms[i][NextIdx(rooms[i], j)]) <= 36 * 36)
                       => SocketsOf(ret.out, rid) = <<>>

\* a room with two outlets on one edge, an outlet position dropped next to an
\* opening, and a step taken from the rules
C22_SecondPointAndDropped ==
    /\ ret.op = "generate_candidates"
    /\ rooms_as_polygons(ret.pid) # <<>>
    /\ LET room == rooms_as_polygons(ret.pid)[1]
           step == StepOf(rules.socket_per_wall_meter)
       IN /\ \E j \in 1..Len(room) :
                Len(EdgeDistances(<<room[j], room[NextIdx(room, j)]>>, step)) >= 2
          /\ \E j \in 1..Len(room) :
                \E seg \in OpeningSegs(ret.pid, "room_000") :
                   ~ClearOfOpening(room, seg,
                        Interpolate(<<room[j], room[NextIdx(room, j)]>>, 18 + step))
          /\ Len(SocketsOf(ret.out, "room_000")) >= 2

NoRepeats(s) == \A i, j \in 1..Len(s) : s[i] = s[j] => i = j

\* a returned call whose passes stayed within the bounds: no device got more
\* than six attempts and every device got its route; no cell was expanded twice
ReturnedWithinBounds ==
    \/ /\ ret.op = "route_all"
       /\ Len(ret.out) = Len(ret.cands)
       /\ Len(ret.found[3]) = Len(ret.cands)
       /\ \A i \in 1..Len(ret.found[3]) : ret.found[3][i] <= 6
    \/ /\ ret.op = "_astar"
       /\ NoRepeats(ret.found[2])

C24_OneSwitchPerRoom ==
    ret.op = "generate_candidates" =>
        LET rooms == rooms_as_polygons(ret.pid)
            switches(rid) == {i \in 1..Len(ret.out) :
                                ret.out[i][1] = "SWITCH" /\ ret.out[i][2] = rid}
        IN /\ \A i \in 1..Len(rooms) : Cardinality(switches(room_id(i - 1))) = 1
           /\ Cardinality({i \in 1..Len(ret.out) : ret.out[i][1] = "SWITCH"}) = Len(rooms)

\* candidates of a room whose only door carries no usable segment
C24_DoorWithoutSegment ==
    /\ ret.op = "generate_candidates"
    /\ Len(rooms_as_polygons(ret.pid)) = 1
    /\ \E i \in 1..Len(DB.structure[ret.pid].openings) :
          LET o == DB.structure[ret.pid].openings[i]
          IN o.kind = "door" /\ o.segment = <<>> /\ "room_000" \in o.roomRefs
    /\ \E i \in 1..Len(ret.out) : ret.out[i][1] = "SWITCH"

\* C25: whenever the solve succeeds (OPTIMAL or FEASIBLE), the selection holds
\* exactly one SWITCH for each room that has a SWITCH candidate and no SOCKET.
C25_OneSwitchNoSocket ==
    (ret.op = "select_devices" /\ ret.status \in {"OPTIMAL", "FEASIBLE"}) =>
        /\ \A rid \in room_ids_of(ret.cands) :
              idxs_of(ret.cands, rid, "SWITCH") # {}
                 => Cardinality(idxs_of(ret.out, rid, "SWITCH")) = 1
        /\ \A i \in 1..Len(ret.out) : ret.out[i][1] # "SOCKET"

\* C26: after any sequence of placement and routing runs the persisted routes
\* of a project match its persisted devices: as many routes as devices, the
\* i-th route starting at the i-th device (a project without persisted routes
\* has nothing to compare).
C26_RoutesMatchDevices ==
    \A p \in Projects :
        (ret.op \in {"select_devices", "route_all"} /\ DB.routes[p].items # <<>>) =>
            LET devices == normalize_devices(p)
                routes == DB.routes[p].items
            IN /\ Len(routes) = Len(devices)
               /\ \A i \in 1..Len(routes) : routes[i][2][1] = devices[i][3]

\* C27: the hand-off from placement to routing loses nothing: the devices
\* _normalize_devices reads back from the JSON form stored by the place
\* handler are the selected devices, in the same order, with the same type,
\* room id and coordinates, and a routing run that follows routes these.
C27_HandOffKeepsDevices ==
    [][/\ ret'.op = "place" =>
            (DB.devices[ret.pid].form = "dict" /\ normalize_devices(ret.pid) = ret.out)'
       /\ (ret.op = "place" /\ ret'.op = "route" /\ ret'.pid = ret.pid)
               => ret'.cands = ret.out]_vars

\* a placement that stored devices of two rooms
C27_TwoRoomsStored ==
    /\ ret.op = "place"
    /\ \E i, j \in 1..Len(ret.out) :
          ret.out[i][2] = "room_000" /\ ret.out[j][2] = "room_001"
    /\ Len(DB.devices[ret.pid].items) = Len(ret.out)

\* the id placement gives the room at position i of the stored room list
PlacementIdOf(project_id, i) ==
    LET raw == DB.rooms[project_id]
        kept == {j \in 1..i : IF raw[j].form = "Polygon" THEN TRUE
                               ELSE Len(raw[j].polygon) >= 3
                                    /\ Area2(raw[j].polygon) > 2 * 3600}
    IN room_id(Cardinality(kept) - 1)

\* the SWITCH devices stored for the room at position i
StoredSwitches(project_id, i) ==
    {k \in 1..Len(DB.devices[project_id].items) :
        /\ DB.devices[project_id].items[k].type = "SWITCH"
        /\ DB.devices[project_id].items[k].room_id = PlacementIdOf(project_id, i)}

\* C28: the validation at the end of a placement request reports SWITCH_MIN
\* for a room exactly when fewer than min_switches SWITCH devices are stored
\* for that room.
C28_SwitchMinIffTooFew ==
    ret.op = "place" =>
        \A i \in 1..Len(DB.rooms[ret.pid]) :
            coerce_polygon(DB.rooms[ret.pid][i]) # <<>> =>
                ((\E k \in 1..Len(ret.found) :
                     /\ ret.found[k].type = "SWITCH_MIN"
                     /\ ret.found[k].room = validator_room_id(i - 1, DB.rooms[ret.pid][i]))
                 <=> Cardinality(StoredSwitches(ret.pid, i)) < rules.min_switches)

\* C29: the id generate_candidates gives a room (and looks its openings up
\* with) is the id under which the structure detector references that room.
C29_SameRoomIds ==
    ret.op = "generate_candidates" =>
        \A k \in 1..Len(rooms_as_polygons(ret.pid)) :
            \E i \in 1..Len(coerce_rooms_polygons(ret.pid)) :
                /\ coerce_rooms_polygons(ret.pid)[i][2] = rooms_as_polygons(ret.pid)[k]
                /\ coerce_rooms_polygons(ret.pid)[i][1] = room_id(k - 1)

\* C30: every routing run builds its grids from the wall mask currently
\* stored for the project: the mask file route_all read is the object stored
\* under the project's wall mask key, also after the detector stored a new one.
C30_CurrentWallMask ==
    (/\ ret.op = "route_all"
     /\ ret.cands # <<>>
     /\ walls_mask_key(ret.pid) # "") =>
        /\ files[ret.pid].wallsMask = bucket[walls_mask_key(ret.pid)]
        /\ \A i \in 1..Len(ret.found) :
              ret.found[i].attempt > 0 =>
                 ret.found[i].occ =
                    build_occupancy(bucket[walls_mask_key(ret.pid)], free_space_of(ret.pid),
                                    attempts[ret.found[i].attempt][1],
                                    attempts[ret.found[i].attempt][2])

====
